---- MODULE Spec2Model ----
(***************************************************************************)
(* A model of radiantkit's image containers (radiantkit/image.py), the     *)
(* border-clearing helpers, and the particle finder and particle features  *)
(* (radiantkit/particle.py).                                               *)
(*                                                                         *)
(* An n-dimensional numpy array of non-negative samples is a record        *)
(*   [tag |-> "ndarray", shape |-> <<d1,...,dn>>, nz |-> f]                *)
(* where f maps the (1-based) coordinates of the non-zero samples to their *)
(* value; every other coordinate of the shape holds 0.  Boolean arrays are *)
(* arrays over {0,1} (numpy: True == 1).  Python's None is NoneVal.        *)
(***************************************************************************)
EXTENDS Integers, Sequences, FiniteSets, TLC

VARIABLES
    sample,     \* the array handed to a constructor; also what the tiff file at TiffPath holds
    img,        \* the image object under construction / use (ImageBase and subclasses)
    made,       \* history: how img was constructed and the buffer it held right after
    ops,        \* history: the calls made on img since construction
    errlog,     \* the records emitted through logging.error
    ret,        \* what the last read of the `pixels` accessor returned
    lab,        \* an ImageLabeled whose borders are cleared
    lab0,       \* history: lab's buffer right after construction
    labPrev,    \* history: lab's buffer before the last border clearing
    labOps,     \* history: the border clearings applied to lab
    source,     \* the image handed to the ParticleFinder
    found,      \* the outcome of the last ParticleFinder call
    part,       \* one particle (ParticleBase) whose features are read
    vol,        \* what the last read of part.volume returned
    heap,       \* the array buffers in memory: heap[id] is what buffer id holds
    parent,     \* a labeled image whose _pixels refers to a buffer of heap
    owned,      \* the particles extracted from parent, and what they held when extracted
    nOps,       \* the number of calls made on parent since the extraction
    binz,       \* a Binarizer: its settings
    binSet,     \* history: the value last assigned to binz.local_side
    binRet,     \* the last call of Binarizer.run / inherit_labels: arguments and outcome
    binLog,     \* the records that call sent to the logger
    fov,        \* a call of NucleiList.from_multiple_fields_of_view: its arguments
    jobs,       \* the per-field calls of that call: where each one is, what it made
    objs,       \* the objects made during that call: objs[id] is the job that made it
    writes,     \* history: which job wrote which object
    fovRet,     \* the outcome of that call
    nuclei,     \* a NucleiList: its nuclei, in list order
    ndata,      \* the last call of get_data / select_G1 on it: arguments and outcome
    nucleus,    \* one Nucleus whose distance maps are set and read
    distRet,    \* the last call made on that nucleus: arguments and outcome
    arrCall,    \* the last call of a function of Image on an array: its name and arguments
    arrRet,     \* the outcome of that call
    listing,    \* the files of a directory, in the order the directory is read
    series,     \* the Series made from the files: their settings, images and particles
    seriesRet,  \* the last call of SeriesList.from_directory / Series.init_particles
    cell,       \* one Particle whose intensity features are set and read
    cellRet     \* the last call made on that particle: arguments and outcome

vars ==
    <<sample, img, made, ops, errlog, ret, lab, lab0, labPrev, labOps, source, found, part, vol,
      heap, parent, owned, nOps, binz, binSet, binRet, binLog,
      fov, jobs, objs, writes, fovRet, nuclei, ndata, nucleus, distRet,
      arrCall, arrRet, listing, series, seriesRet, cell, cellRet>>

imageVars == <<sample, img, made, ops, errlog, ret>>
borderVars == <<lab, lab0, labPrev, labOps>>
finderVars == <<source, found>>
particleVars == <<part, vol>>
ownerVars == <<heap, parent, owned, nOps>>

binarizerVars == <<binz, binSet, binRet, binLog>>
fieldsVars == <<fov, jobs, objs, writes, fovRet>>
nucleiVars == <<nuclei, ndata>>
distanceVars == <<nucleus, distRet>>
arraysVars == <<arrCall, arrRet>>
seriesVars == <<listing, series, seriesRet>>
intensityVars == <<cell, cellRet>>

\* the variables of the models of the array functions, the series and the
\* intensity features
recentVars == <<arraysVars, seriesVars, intensityVars>>

\* the variables of the models further down
laterVars == <<ownerVars, binarizerVars, fieldsVars, nucleiVars, distanceVars, recentVars>>

\* what the model of the particles' buffers leaves alone
ownerRest ==
    <<sample, img, made, ops, ret, borderVars, finderVars, particleVars, binarizerVars,
      fieldsVars, nucleiVars, distanceVars, recentVars>>

\* what the model of the Binarizer leaves alone
binarizerRest ==
    <<imageVars, borderVars, finderVars, particleVars, ownerVars,
      fieldsVars, nucleiVars, distanceVars, recentVars>>

\* the variables of the models of images, borders, finder, particles, buffers
\* and Binarizer
earlierVars ==
    <<imageVars, borderVars, finderVars, particleVars, ownerVars, binarizerVars>>

\* what the model of the fields of view leaves alone
fieldsRest == <<earlierVars, nucleiVars, distanceVars, recentVars>>

\* what the model of the NucleiList leaves alone
nucleiRest == <<earlierVars, fieldsVars, distanceVars, recentVars>>

\* what the model of the distance maps leaves alone
distanceRest == <<earlierVars, fieldsVars, nucleiVars, recentVars>>

\* the variables of the models before these three
formerVars == <<earlierVars, fieldsVars, nucleiVars, distanceVars>>

\* what the model of the array functions leaves alone
arraysRest == <<formerVars, seriesVars, intensityVars>>

\* what the model of the series leaves alone
seriesRest == <<formerVars, arraysVars, intensityVars>>

\* what the model of the intensity features leaves alone
intensityRest == <<formerVars, arraysVars, seriesVars>>

(***************************************************************************)
(* Bounds of the model.                                                    *)
(***************************************************************************)
\* largest sample value of an input array
MaxVal ==
    2
\* most calls made on one image object after its construction
MaxOps ==
    3
\* most non-zero voxels of an input stack of the border / finder models
MaxFg ==
    2
\* largest per-axis aspect ratio of a particle, in halves of a unit
MaxHalves ==
    3
\* largest absolute value assigned to the Binarizer's local_side
MaxSide ==
    3

(***************************************************************************)
(* numpy arrays.                                                           *)
(***************************************************************************)
NoneVal ==
    [tag |-> "None"]

Unset ==
    [tag |-> "unset"]

RECURSIVE Coords(_)
Coords(shape) ==
    IF shape = <<>> THEN {<<>>}
    ELSE {<<i>> \o c : i \in 1..Head(shape), c \in Coords(Tail(shape))}

RECURSIVE Size(_)
Size(shape) ==
    IF shape = <<>> THEN 1 ELSE Head(shape) * Size(Tail(shape))

NdArray(shape, f) ==
    [tag |-> "ndarray", shape |-> shape, nz |-> f]

\* the array of a dense table of samples
FromDense(shape, d) ==
    NdArray(shape, [c \in {x \in Coords(shape) : d[x] # 0} |-> d[c]])

Rank(A) ==
    Len(A.shape)

At(A, c) ==
    IF c \in DOMAIN A.nz THEN A.nz[c] ELSE 0

Values(A) ==
    {A.nz[c] : c \in DOMAIN A.nz}
        \cup (IF Cardinality(DOMAIN A.nz) < Size(A.shape) THEN {0} ELSE {})

SetMin(S) ==
    CHOOSE m \in S : \A x \in S : m <= x

SetMax(S) ==
    CHOOSE m \in S : \A x \in S : x <= m

\* ndarray.min() and ndarray.max()
ArrMin(A) ==
    SetMin(Values(A))

ArrMax(A) ==
    SetMax(Values(A))

\* A > t, as a boolean array (t >= 0)
GreaterThan(A, t) ==
    NdArray(A.shape, [c \in {x \in DOMAIN A.nz : A.nz[x] > t} |-> 1])

\* A == v, as a boolean array (v > 0)
EqualTo(A, v) ==
    NdArray(A.shape, [c \in {x \in DOMAIN A.nz : A.nz[x] = v} |-> 1])

\* I[0]: the first element along the leading axis
Index0(A) ==
    NdArray(Tail(A.shape),
            [c \in {Tail(x) : x \in {y \in DOMAIN A.nz : y[1] = 1}} |-> A.nz[<<1>> \o c]])

\* s[-n:] of a Python sequence
SliceLast(s, n) ==
    IF n = 0 \/ n >= Len(s) THEN s ELSE SubSeq(s, Len(s) - n + 1, Len(s))

(***************************************************************************)
(* radiantkit/image.py: ImageSettings, ImageBase, Image*, ImageBinary*.    *)
(***************************************************************************)
\* the one valid tiff file of the model; it holds `sample`
TiffPath ==
    [tag |-> "path", name |-> "field.tif"]

\* os.path.isfile
IsFile(path) ==
    path = TiffPath

\* the class attribute _axes_order of each class
AxesOrderOf(cls) ==
    CASE cls \in {"ImageBase", "Image", "ImageBinary", "ImageLabeled"} -> <<"T", "Z", "Y", "X">>
      [] cls \in {"Image2D", "ImageBinary2D"} -> <<"Y", "X">>
      [] cls \in {"Image3D", "ImageBinary3D"} -> <<"Z", "Y", "X">>

NoImage ==
    [cls |-> "None", _pixels |-> NoneVal, _axes_order |-> <<>>, _path_to_local |-> NoneVal]

\* ImageSettings.nd
nd(obj) ==
    Len(obj._axes_order)

RECURSIVE extract_nd(_, _)
extract_nd(I, n) ==
    IF Rank(I) <= n THEN I ELSE extract_nd(Index0(I), n)

\* ImageBase._extract_nd; the slice is taken with nd, the length of the axes
\* string itself
ImageBase_extract_nd(obj) ==
    LET px == extract_nd(obj._pixels, nd(obj))
    IN  [obj EXCEPT !._pixels = px,
                    !._axes_order = IF Rank(px) # nd(obj)
                                    THEN SliceLast(obj._axes_order, nd(obj))
                                    ELSE obj._axes_order]

\* a constructor that records the path it is given
PathKept_Stored(path) ==
    path

\* what ImageBase.__init__ leaves in _path_to_local: the argument `path` is
\* accepted and never assigned, so the class attribute (None) stays
PathKept(path) ==
    NoneVal

\* ImageBase.__init__(pixels, path)
ImageBase_init(cls, pixels, path) ==
    ImageBase_extract_nd([cls |-> cls, _pixels |-> pixels,
                          _axes_order |-> AxesOrderOf(cls),
                          _path_to_local |-> PathKept(path)])

\* ImageBinary._rebinarize
ImageBinary_rebinarize(obj) ==
    [obj EXCEPT !._pixels = GreaterThan(obj._pixels, ArrMin(obj._pixels))]

\* a constructor without its closing assertion
AssertMaxIsOne_Skipped(obj) ==
    TRUE

\* the assertion closing ImageBinary.__init__
AssertMaxIsOne(obj) ==
    1 = ArrMax(obj._pixels)

\* ImageBinary.__init__(pixels, path, doRebinarize): the object, or the
\* AssertionError that ends the construction
ImageBinary_init(cls, pixels, path, doRebinarize) ==
    LET base == ImageBase_init(cls, pixels, path)
        obj == IF doRebinarize THEN ImageBinary_rebinarize(base) ELSE base
    IN  IF AssertMaxIsOne(obj) THEN [ok |-> TRUE, obj |-> obj, err |-> "none"]
        ELSE [ok |-> FALSE, obj |-> NoImage, err |-> "AssertionError"]

BinaryClasses ==
    {"ImageBinary", "ImageBinary2D", "ImageBinary3D"}

\* ImageBinary3D.__init__ hands `doRebianrize`, a name nothing defines, to
\* the parent constructor: the call raises before an object exists
ImageBinary3D_init(pixels, path, doRebinarize) ==
    [ok |-> FALSE, obj |-> NoImage, err |-> "NameError"]

PlainClasses ==
    {"ImageBase", "Image2D", "Image3D"}

\* cls(pixels, path) for the classes of the model
Construct(cls, pixels, path, doRebinarize) ==
    IF cls = "ImageBinary3D" THEN ImageBinary3D_init(pixels, path, doRebinarize)
    ELSE IF cls \in BinaryClasses THEN ImageBinary_init(cls, pixels, path, doRebinarize)
    ELSE [ok |-> TRUE, obj |-> ImageBase_init(cls, pixels, path), err |-> "none"]

\* ImageBase.load_from_local: from_tiff builds a new image and the result is
\* dropped; self is left as it was
ImageBase_load_from_local(obj) ==
    obj

\* the `pixels` property: the object after the read, and the value returned
ImageBase_pixels(obj) ==
    LET o == IF obj._pixels = NoneVal /\ obj._path_to_local # NoneVal
             THEN ImageBase_load_from_local(obj) ELSE obj
    IN  [obj |-> o, value |-> o._pixels]

NoPathMsg ==
    "cannot unload Image without path_to_local."

NotFoundMsg ==
    "path_to_local not found, cannot unload: "

\* whether ImageBase.unload takes the early return of a missing path
UnloadRefusesNoPath(obj) ==
    obj._path_to_local = NoneVal

\* an unload that releases the buffer without looking at the path
ImageBase_unload_Unguarded(obj, log) ==
    [obj |-> [obj EXCEPT !._pixels = NoneVal], log |-> log]

\* ImageBase.unload: the object and the log after the call
ImageBase_unload(obj, log) ==
    IF UnloadRefusesNoPath(obj) THEN [obj |-> obj, log |-> Append(log, NoPathMsg)]
    ELSE IF ~IsFile(obj._path_to_local) THEN [obj |-> obj, log |-> Append(log, NotFoundMsg)]
    ELSE [obj |-> [obj EXCEPT !._pixels = NoneVal], log |-> log]

(***************************************************************************)
(* skimage.measure.label and skimage.segmentation.clear_border, as the     *)
(* code calls them (default arguments: full connectivity, background 0).   *)
(***************************************************************************)
\* neighbours under full connectivity: every coordinate differs by at most 1
Adjacent(a, b) ==
    a # b /\ \A i \in 1..Len(a) : a[i] - b[i] \in {-1, 0, 1}

RECURSIVE Grow(_, _, _)
Grow(A, seen, frontier) ==
    IF frontier = {} THEN seen
    ELSE LET more == {c \in DOMAIN A.nz \ seen :
                        \E f \in frontier : Adjacent(c, f) /\ A.nz[c] = A.nz[f]}
         IN  Grow(A, seen \cup more, more)

\* the connected region of equal-valued non-zero voxels that holds c
Region(A, c) ==
    Grow(A, {c}, {c})

RECURSIVE RasterBefore(_, _)
RasterBefore(a, b) ==
    IF a = <<>> THEN FALSE
    ELSE Head(a) < Head(b) \/ (Head(a) = Head(b) /\ RasterBefore(Tail(a), Tail(b)))

\* the first voxel of a non-empty set in raster (C) order
First(S) ==
    CHOOSE c \in S : \A d \in S : d = c \/ RasterBefore(c, d)

\* skimage.measure.label(A): regions numbered 1.. in raster order of their
\* first voxel
label(A) ==
    LET seedOf == [c \in DOMAIN A.nz |-> First(Region(A, c))]
        seeds == {seedOf[c] : c \in DOMAIN A.nz}
    IN  NdArray(A.shape,
                [c \in DOMAIN A.nz |->
                    Cardinality({s \in seeds : s = seedOf[c] \/ RasterBefore(s, seedOf[c])})])

\* the voxels of A on the first or last position of one of the axes in `axes`
OnFaces(A, axes) ==
    {c \in DOMAIN A.nz : \E i \in axes : c[i] = 1 \/ c[i] = A.shape[i]}

\* whether some zero voxel lies on those faces
ZeroOnFaces(A, axes) ==
    \E c \in Coords(A.shape) :
        /\ c \notin DOMAIN A.nz
        /\ \E i \in axes : c[i] = 1 \/ c[i] = A.shape[i]

\* skimage.segmentation.clear_border(L): relabels, and zeroes in a copy of L
\* every region connected to the image border
clear_border(L) ==
    LET labels == label(L)
        borders_indices == {labels.nz[c] : c \in OnFaces(labels, 1..Rank(L))}
    IN  NdArray(L.shape,
                [c \in {x \in DOMAIN L.nz : labels.nz[x] \notin borders_indices} |-> L.nz[c]])

(***************************************************************************)
(* radiantkit/image.py: clear_XY_borders, clear_Z_borders, ImageLabeled.   *)
(***************************************************************************)
\* a loop that stops after the first label it clears
ZeroLabels_FirstOnly(L, border_labels) ==
    IF border_labels \ {0} = {} THEN L
    ELSE NdArray(L.shape,
                 [c \in {x \in DOMAIN L.nz : L.nz[x] # SetMin(border_labels \ {0})} |-> L.nz[c]])

\* for lab in border_labels: L[L == lab] = 0
ZeroLabels(L, border_labels) ==
    NdArray(L.shape, [c \in {x \in DOMAIN L.nz : L.nz[x] \notin border_labels} |-> L.nz[c]])

\* the values np.unique finds on the faces of the given axes
FaceLabels(L, axes) ==
    {L.nz[c] : c \in OnFaces(L, axes)} \cup (IF ZeroOnFaces(L, axes) THEN {0} ELSE {})

clear_XY_borders(L) ==
    IF Rank(L) = 2 THEN clear_border(L)
    ELSE IF Rank(L) = 3 THEN label(ZeroLabels(L, FaceLabels(L, {2, 3})))
    ELSE L

clear_Z_borders(L) ==
    IF Rank(L) = 2 THEN L
    ELSE IF Rank(L) = 3 THEN label(ZeroLabels(L, FaceLabels(L, {1})))
    ELSE L

\* ImageLabeled._relabel
ImageLabeled_relabel(obj) ==
    [obj EXCEPT !._pixels = label(GreaterThan(obj._pixels, ArrMin(obj._pixels)))]

\* ImageLabeled.__init__(pixels, path, doRelabel)
ImageLabeled_init(pixels, path, doRelabel) ==
    LET base == ImageBase_init("ImageLabeled", pixels, path)
    IN  IF doRelabel THEN ImageLabeled_relabel(base) ELSE base

\* ImageLabeled.clear_XY_borders / ImageLabeled.clear_Z_borders
ImageLabeled_clear_XY_borders(obj) ==
    [obj EXCEPT !._pixels = clear_XY_borders(obj._pixels)]

ImageLabeled_clear_Z_borders(obj) ==
    [obj EXCEPT !._pixels = clear_Z_borders(obj._pixels)]

\* ImageBinary.label
ImageBinary_label(obj) ==
    ImageLabeled_init(ImageBase_pixels(obj).value, NoneVal, TRUE)

(***************************************************************************)
(* radiantkit/particle.py: ParticleBase, Particle, Nucleus, ParticleFinder.*)
(* BoundingElement (radiantkit.selection) and the axes, aspect and         *)
(* foreground attributes of the images are not part of image.py; they are  *)
(* modelled from the specification's data model.                           *)
(***************************************************************************)
IntVal(v) ==
    [tag |-> "int", v |-> v]

\* BoundingElement.from_binary_pixels: the minimal axis-aligned box, one
\* [start, end) range per axis, around the non-zero voxels
BoundingElement_from_binary_pixels(B) ==
    [lo |-> [i \in 1..Rank(B) |-> SetMin({c[i] : c \in DOMAIN B.nz})],
     hi |-> [i \in 1..Rank(B) |-> SetMax({c[i] : c \in DOMAIN B.nz}) + 1]]

\* BoundingElement.shape
BoundingElement_shape(roi) ==
    [i \in 1..Len(roi.lo) |-> roi.hi[i] - roi.lo[i]]

\* BoundingElement.apply_to_pixels: the crop of an array to the box
BoundingElement_apply_to_pixels(roi, A) ==
    LET inside == {c \in DOMAIN A.nz : \A i \in 1..Len(c) : roi.lo[i] <= c[i] /\ c[i] < roi.hi[i]}
        local(c) == [i \in 1..Len(c) |-> c[i] - roi.lo[i] + 1]
        global(c) == [i \in 1..Len(c) |-> c[i] + roi.lo[i] - 1]
    IN  NdArray(BoundingElement_shape(roi), [c \in {local(x) : x \in inside} |-> A.nz[global(c)]])

\* the `axes` attribute of an image: its axis-order string
ImageAxes(obj) ==
    obj._axes_order

\* the `foreground` attribute of a binary image: the number of True voxels
ImageBinary_foreground(obj) ==
    Cardinality(DOMAIN obj._pixels.nz)

\* Python truth of an axes string
Truthy(axes) ==
    Len(axes) > 0

\* ParticleBase.__init__ / Particle.__init__ / Nucleus.__init__ (pixels, roi,
\* axes): super().__init__(pixels, None, axes) reaches ImageBinary.__init__,
\* whose third parameter is doRebinarize
Particle_init(particleClass, pixels, roi, axes) ==
    IF pixels.shape # BoundingElement_shape(roi)
    THEN [ok |-> FALSE, obj |-> NoImage, err |-> "AssertionError"]
    ELSE LET r == ImageBinary_init("ImageBinary", pixels, NoneVal, Truthy(axes))
         IN  IF ~r.ok THEN r
             ELSE [ok |-> TRUE, err |-> "none",
                   obj |-> [cls |-> particleClass,
                            _pixels |-> r.obj._pixels,
                            _axes_order |-> r.obj._axes_order,
                            _path_to_local |-> r.obj._path_to_local,
                            _region_of_interest |-> roi,
                            idx |-> NoneVal,
                            aspect |-> NoneVal,
                            _total_size |-> NoneVal]]

\* the `total_size` property: the particle after the read (the count is
\* cached on first use) and the value returned
ParticleBase_total_size(p) ==
    LET q == IF p._total_size = NoneVal
             THEN [p EXCEPT !._total_size = IntVal(ImageBinary_foreground(p))]
             ELSE p
    IN  [obj |-> q, value |-> q._total_size.v]

(***************************************************************************)
(* Aspect ratios are counted in halves of a unit: <<1, 2, 3>> stands for   *)
(* (0.5, 1.0, 1.5).  Products of such values and a voxel count are exact   *)
(* in floating point.                                                      *)
(***************************************************************************)
RECURSIVE HalvesProduct(_)
HalvesProduct(aspect) ==
    IF aspect = <<>> THEN 1 ELSE Head(aspect) * HalvesProduct(Tail(aspect))

\* the denominator of np.prod(aspect)
HalvesScale(aspect) ==
    2 ^ Len(aspect)

\* a volume rounded to the nearest integer
TruncateToInt_Rounded(num, den) ==
    (2 * num + den) \div (2 * den)

\* int(x) of the non-negative rational num / den
TruncateToInt(num, den) ==
    num \div den

\* the `volume` property: int(self.total_size * np.prod(self.aspect))
ParticleBase_volume(p) ==
    LET t == ParticleBase_total_size(p)
    IN  [obj |-> t.obj,
         value |-> TruncateToInt(t.value * HalvesProduct(p.aspect), HalvesScale(p.aspect))]

MonochromeMsg ==
    "monochromatic image detected."

\* a precondition that only rejects an all-background image
NotMonochromatic_ZeroOnly(L) ==
    ArrMax(ImageBase_pixels(L).value) # 0

\* the precondition of get_particles_from_labeled_image
NotMonochromatic(L) ==
    ArrMin(ImageBase_pixels(L).value) # ArrMax(ImageBase_pixels(L).value)

\* a loop that clears each label from the source once it is boxed
SourceAfterBoxing_Cleared(L, particle_label) ==
    [L EXCEPT !._pixels = ZeroLabels(L._pixels, {particle_label})]

\* the source image after one pass of the loop: it is only read
SourceAfterBoxing(L, particle_label) ==
    L

\* one pass of the loop of get_particles_from_labeled_image, for a non-zero
\* label; st holds the image, its aspect, the particles boxed so far and the
\* exception raised, if any
BoxParticle(st, particle_label, particleClass) ==
    LET binary_pixels == EqualTo(ImageBase_pixels(st.L).value, particle_label)
        roi == BoundingElement_from_binary_pixels(binary_pixels)
        r == Particle_init(particleClass, BoundingElement_apply_to_pixels(roi, binary_pixels),
                           roi, ImageAxes(st.L))
    IN  IF ~r.ok THEN [st EXCEPT !.raised = r.err]
        ELSE [st EXCEPT !.L = SourceAfterBoxing(st.L, particle_label),
                        !.out = Append(@, [r.obj EXCEPT !.aspect = st.aspect,
                                                        !.idx = IntVal(particle_label)])]

\* the loop over np.unique(L.pixels), in ascending order
RECURSIVE BoxParticles(_, _, _)
BoxParticles(st, labels, particleClass) ==
    IF labels = {} \/ st.raised # "none" THEN st
    ELSE LET particle_label == SetMin(labels)
         IN  BoxParticles(IF particle_label = 0 THEN st
                          ELSE BoxParticle(st, particle_label, particleClass),
                          labels \ {particle_label}, particleClass)

\* ParticleFinder.get_particles_from_labeled_image(L, particleClass), for an
\* image of aspect `aspect`: the particles returned (none when an exception
\* ends the call), the exception, and the image after the call
get_particles_from_labeled_image(L, aspect, particleClass) ==
    IF ~NotMonochromatic(L)
    THEN [L |-> L, aspect |-> aspect, out |-> <<>>, raised |-> MonochromeMsg]
    ELSE LET st == BoxParticles([L |-> L, aspect |-> aspect, out |-> <<>>, raised |-> "none"],
                                Values(ImageBase_pixels(L).value), particleClass)
         IN  IF st.raised = "none" THEN st ELSE [st EXCEPT !.out = <<>>]

(***************************************************************************)
(* The life of one image object: construction from an array or from the    *)
(* tiff file, then unload() calls and reads of `pixels` in any order.      *)
(***************************************************************************)
InputShapes ==
    {<<2>>, <<2, 2>>, <<2, 1, 2>>, <<1, 1, 2>>, <<1, 1, 1, 1, 2>>, <<2, 1, 1, 1, 1>>}

InputArrays ==
    UNION {{FromDense(sh, d) : d \in [Coords(sh) -> 0..MaxVal]} : sh \in InputShapes}

NotMade ==
    [how |-> "none", ok |-> FALSE, cls |-> "None", rebin |-> FALSE, px |-> NoneVal]

borderIdle ==
    /\ lab = NoImage
    /\ lab0 = NoneVal
    /\ labPrev = NoneVal
    /\ labOps = <<>>

finderIdle ==
    /\ source = NoImage
    /\ found = Unset

particleIdle ==
    /\ part = Unset
    /\ vol = Unset

ownerIdle ==
    /\ heap = <<>>
    /\ parent = NoImage
    /\ owned = [done |-> FALSE, list |-> <<>>, mask0 |-> <<>>, count0 |-> <<>>]
    /\ nOps = 0

binarizerIdle ==
    /\ binz = NoneVal
    /\ binSet = Unset
    /\ binRet = Unset
    /\ binLog = <<>>

fieldsIdle ==
    /\ fov = Unset
    /\ jobs = <<>>
    /\ objs = <<>>
    /\ writes = {}
    /\ fovRet = Unset

nucleiIdle ==
    /\ nuclei = NoneVal
    /\ ndata = Unset

distanceIdle ==
    /\ nucleus = Unset
    /\ distRet = Unset

arraysIdle ==
    /\ arrCall = Unset
    /\ arrRet = Unset

seriesIdle ==
    /\ listing = <<>>
    /\ series = Unset
    /\ seriesRet = Unset

intensityIdle ==
    /\ cell = Unset
    /\ cellRet = Unset

recentIdle ==
    /\ arraysIdle
    /\ seriesIdle
    /\ intensityIdle

laterIdle ==
    /\ ownerIdle
    /\ binarizerIdle
    /\ fieldsIdle
    /\ nucleiIdle
    /\ distanceIdle
    /\ recentIdle

imageIdle ==
    /\ sample = NoneVal
    /\ img = NoImage
    /\ made = NotMade
    /\ ops = <<>>
    /\ errlog = <<>>
    /\ ret = Unset

earlierIdle ==
    /\ imageIdle
    /\ borderIdle
    /\ finderIdle
    /\ particleIdle
    /\ ownerIdle
    /\ binarizerIdle

\* the models before the last three are idle
formerIdle ==
    /\ earlierIdle
    /\ fieldsIdle
    /\ nucleiIdle
    /\ distanceIdle

InitImage ==
    /\ sample \in InputArrays
    /\ img = NoImage
    /\ made = NotMade
    /\ ops = <<>>
    /\ errlog = <<>>
    /\ ret = Unset
    /\ borderIdle
    /\ finderIdle
    /\ particleIdle
    /\ laterIdle

\* cls(sample), or cls.from_tiff(TiffPath) = cls(read_tiff(TiffPath), TiffPath)
New(cls, how, doRebinarize) ==
    /\ made.how = "none"
    /\ LET r == Construct(cls, sample, IF how = "tiff" THEN TiffPath ELSE NoneVal, doRebinarize)
       IN  /\ img' = r.obj
           /\ made' = [how |-> how, ok |-> r.ok, cls |-> cls, rebin |-> doRebinarize,
                       px |-> r.obj._pixels]
    /\ UNCHANGED <<sample, ops, errlog, ret>>
    /\ UNCHANGED <<borderVars, finderVars, particleVars, laterVars>>

NewPlain ==
    \E cls \in PlainClasses, how \in {"array", "tiff"} : New(cls, how, TRUE)

\* ImageBinary.from_tiff declares (self, path) under @staticmethod and cannot
\* be called with a path alone; ImageBinary2D.from_tiff and
\* ImageBinary3D.from_tiff can, and rebinarize
NewBinary ==
    \E cls \in BinaryClasses, how \in {"array", "tiff"}, doRebinarize \in BOOLEAN :
        /\ how = "tiff" => (cls # "ImageBinary" /\ doRebinarize)
        /\ New(cls, how, doRebinarize)

Unload ==
    /\ made.ok
    /\ Len(ops) < MaxOps
    /\ LET r == ImageBase_unload(img, errlog)
       IN  /\ img' = r.obj
           /\ errlog' = r.log
    /\ ops' = Append(ops, "unload")
    /\ UNCHANGED <<sample, made, ret>>
    /\ UNCHANGED <<borderVars, finderVars, particleVars, laterVars>>

ReadPixels ==
    /\ made.ok
    /\ Len(ops) < MaxOps
    /\ LET r == ImageBase_pixels(img)
       IN  /\ img' = r.obj
           /\ ret' = r.value
    /\ ops' = Append(ops, "pixels")
    /\ UNCHANGED <<sample, made, errlog>>
    /\ UNCHANGED <<borderVars, finderVars, particleVars, laterVars>>

NextImage ==
    \/ NewPlain
    \/ NewBinary
    \/ Unload
    \/ ReadPixels

SpecImage ==
    InitImage /\ [][NextImage]_vars

(***************************************************************************)
(* Claims about the image containers, checked under SpecImage.             *)
(***************************************************************************)
FileBacked ==
    made.ok /\ made.how = "tiff"

\* the last call read `pixels`, and unload() was called before it
ReadAfterUnload ==
    /\ Len(ops) >= 2
    /\ ops[Len(ops)] = "pixels"
    /\ \E i \in 1..(Len(ops) - 1) : ops[i] = "unload"

\* C3: for an image created from a valid tiff file, a read of `pixels` that
\* follows unload() returns a buffer (never None) equal to the samples the
\* image held after construction.
C3_ReadAfterUnloadReturnsSamples ==
    (FileBacked /\ ReadAfterUnload) => (ret # NoneVal /\ ret = made.px)

C3_Witness ==
    /\ FileBacked
    /\ ops = <<"unload", "pixels">>
    /\ ret = made.px
    /\ ret.tag = "ndarray"

\* C4: unload() on an image without a backing path records one error and
\* leaves the object, its sample buffer included, as it was; this holds for
\* every call of a run of repeated calls.
C4_UnloadWithoutPathChangesNothing ==
    [][(made.ok /\ img._path_to_local = NoneVal /\ ops' = Append(ops, "unload"))
          => (img' = img /\ img'._pixels = made.px /\ errlog' = Append(errlog, NoPathMsg))]_vars

C4_Witness ==
    /\ made.ok
    /\ made.how = "array"
    /\ img._path_to_local = NoneVal
    /\ ops = <<"unload", "unload", "unload">>
    /\ errlog = <<NoPathMsg, NoPathMsg, NoPathMsg>>
    /\ img._pixels = made.px

\* C5: in every state of a constructed image the rank of the sample array
\* equals the length of the axis-order string, and an array of higher rank
\* lost only leading axes of extent 1 (no sample was dropped).
C5_RankEqualsAxesLength ==
    made.ok =>
        /\ Rank(made.px) = Len(img._axes_order)
        /\ Rank(sample) > Rank(made.px) => Size(sample.shape) = Size(made.px.shape)

\* C5 (first half alone): the rank equals the length of the axis-order string
C5_RankOnly ==
    made.ok => Rank(made.px) = Len(img._axes_order)

\* C5 (second half alone): only leading axes of extent 1 are trimmed
C5_SingletonOnly ==
    (made.ok /\ Rank(sample) > Rank(made.px)) => Size(sample.shape) = Size(made.px.shape)

\* C6: a binary image constructed with rebinarization has all its samples in
\* {0,1} and a maximum of exactly 1, whatever the input array.
C6_BinarySamplesAfterConstruction ==
    (made.ok /\ made.cls \in BinaryClasses /\ made.rebin) =>
        (Values(made.px) \subseteq {0, 1} /\ ArrMax(made.px) = 1)

C6_Witness ==
    /\ made.ok
    /\ made.cls \in BinaryClasses
    /\ made.rebin
    /\ ArrMin(sample) = 1
    /\ ArrMax(sample) = 2
    /\ ArrMax(made.px) = 1

(***************************************************************************)
(* Border clearing of a labeled image: an ImageLabeled built from a plane  *)
(* or a stack (relabeled, or taken as given), then clear_XY_borders and    *)
(* clear_Z_borders in any order.                                           *)
(***************************************************************************)
RECURSIVE SubsetsUpTo(_, _)
SubsetsUpTo(S, k) ==
    IF k = 0 THEN {{}}
    ELSE LET smaller == SubsetsUpTo(S, k - 1)
         IN  smaller \cup {T \cup {c} : T \in smaller, c \in S}

\* the arrays of a shape with at most k non-zero voxels, valued in vals
SparseArrays(shape, k, vals) ==
    UNION {{NdArray(shape, f) : f \in [T -> vals]} : T \in SubsetsUpTo(Coords(shape), k)}

PlaneShape ==
    <<3, 4>>

StackShape ==
    <<3, 3, 3>>

\* planes of labels, and stacks as thresholding leaves them (0 / 1)
LabelInputs ==
    SparseArrays(PlaneShape, MaxFg, 1..MaxVal) \cup SparseArrays(StackShape, MaxFg, {1})

\* the calls made on the labeled image, the most recent two of them
LastTwo(calls) ==
    IF Len(calls) <= 2 THEN calls ELSE SubSeq(calls, Len(calls) - 1, Len(calls))

InitBorder ==
    /\ \E A \in LabelInputs, doRelabel \in BOOLEAN :
            lab = ImageLabeled_init(A, NoneVal, doRelabel)
    /\ lab0 = lab._pixels
    /\ labPrev = NoneVal
    /\ labOps = <<>>
    /\ imageIdle
    /\ finderIdle
    /\ particleIdle
    /\ laterIdle

ClearXY ==
    /\ lab' = ImageLabeled_clear_XY_borders(lab)
    /\ labPrev' = lab._pixels
    /\ labOps' = LastTwo(Append(labOps, "XY"))
    /\ UNCHANGED lab0
    /\ UNCHANGED <<imageVars, finderVars, particleVars, laterVars>>

ClearZ ==
    /\ lab' = ImageLabeled_clear_Z_borders(lab)
    /\ labPrev' = lab._pixels
    /\ labOps' = LastTwo(Append(labOps, "Z"))
    /\ UNCHANGED lab0
    /\ UNCHANGED <<imageVars, finderVars, particleVars, laterVars>>

NextBorder ==
    \/ ClearXY
    \/ ClearZ

SpecBorder ==
    InitBorder /\ [][NextBorder]_vars

(***************************************************************************)
(* Claims about border clearing, checked under SpecBorder.                 *)
(***************************************************************************)
\* the last two clearings were the same operation
ClearedTwice ==
    Len(labOps) >= 2 /\ labOps[Len(labOps)] = labOps[Len(labOps) - 1]

\* C7: border clearing is idempotent: a second clear_XY_borders (or a second
\* clear_Z_borders) right after the first leaves the 2D or 3D labeled image
\* as the first left it.
C7_BorderClearingIdempotent ==
    ClearedTwice => lab._pixels = labPrev

\* a stack whose first XY clearing removed a component and kept another
C7_Witness ==
    /\ labOps = <<"XY", "XY">>
    /\ Rank(lab0) = 3
    /\ labPrev # lab0
    /\ DOMAIN labPrev.nz # {}
    /\ lab._pixels = labPrev

\* a plane, and a Z clearing of a stack, that did the same
C7_WitnessPlaneAndZ ==
    \/ /\ labOps = <<"XY", "XY">>
       /\ Rank(lab0) = 2
       /\ labPrev # lab0
       /\ DOMAIN labPrev.nz # {}
    \/ /\ labOps = <<"Z", "Z">>
       /\ Rank(lab0) = 3
       /\ labPrev # lab0
       /\ DOMAIN labPrev.nz # {}

\* a set of voxels of a stack with a voxel on the first or last row or column
TouchesXY(S, shape) ==
    \E c \in S : c[2] \in {1, shape[2]} \/ c[3] \in {1, shape[3]}

\* a set of voxels of a stack with a voxel on the first or last depth slice
TouchesZ(S, shape) ==
    \E c \in S : c[1] \in {1, shape[1]}

\* every label of the image marks one connected component
OneComponentPerLabel(A) ==
    \A c \in DOMAIN A.nz : Region(A, c) = {d \in DOMAIN A.nz : A.nz[d] = A.nz[c]}

\* C8: for every 3D stack, XY clearing alone zeroes every voxel of a label
\* that appears on the first or last row or column, and keeps non-zero every
\* voxel of a component that touches a depth face and no row or column face.
C8_XYClearingKeepsDepthOnlyComponents ==
    (labOps = <<"XY">> /\ Rank(lab0) = 3) =>
        \A c \in DOMAIN lab0.nz :
            /\ (\E b \in OnFaces(lab0, {2, 3}) : lab0.nz[b] = lab0.nz[c])
                    => c \notin DOMAIN lab._pixels.nz
            /\ (TouchesZ(Region(lab0, c), lab0.shape) /\ ~TouchesXY(Region(lab0, c), lab0.shape))
                    => c \in DOMAIN lab._pixels.nz

\* the same, for the stacks in which every label marks one component
C8_HoldsWithOneComponentPerLabel ==
    OneComponentPerLabel(lab0) => C8_XYClearingKeepsDepthOnlyComponents

(***************************************************************************)
(* The particle finder: a binary or a labeled image, with its aspect, is   *)
(* handed to get_particles_from_binary_image or                            *)
(* get_particles_from_labeled_image.                                       *)
(***************************************************************************)
\* the array of a shape with every voxel equal to v
Full(shape, v) ==
    NdArray(shape, [c \in Coords(shape) |-> v])

FinderInputs ==
    LabelInputs \cup {Full(PlaneShape, v) : v \in 1..MaxVal}

\* the aspect an input image carries, in halves of a unit: half a unit
\* along the first axis, one unit along the others
FinderAspect(A) ==
    [i \in 1..Rank(A) |-> IF i = 1 THEN 1 ELSE 2]

\* ImageLabeled(A, doRelabel=r), as the argument L
LabeledSource(A, r) ==
    [kind |-> "labeled", relabeled |-> r, image |-> ImageLabeled_init(A, NoneVal, r),
     aspect |-> FinderAspect(A)]

\* ImageBinary(A, doRebinarize=r), as the argument B
BinarySource(A, r) ==
    [kind |-> "binary", relabeled |-> TRUE,
     image |-> ImageBinary_init("ImageBinary", A, NoneVal, r).obj, aspect |-> FinderAspect(A)]

InitFinder ==
    /\ \E A \in FinderInputs, r \in BOOLEAN :
        \/ source = LabeledSource(A, r)
        \/ /\ ImageBinary_init("ImageBinary", A, NoneVal, r).ok
           /\ source = BinarySource(A, r)
    /\ found = Unset
    /\ imageIdle
    /\ borderIdle
    /\ particleIdle
    /\ laterIdle

\* ParticleFinder.get_particles_from_labeled_image(source, particleClass)
FindInLabeled ==
    /\ found = Unset
    /\ source.kind = "labeled"
    /\ \E particleClass \in {"Particle", "Nucleus"} :
        LET r == get_particles_from_labeled_image(source.image, source.aspect, particleClass)
        IN  /\ found' = [raised |-> r.raised, value |-> r.out, cls |-> particleClass,
                         L0 |-> source.image._pixels, L1 |-> r.L._pixels]
            /\ source' = [source EXCEPT !.image = r.L]
    /\ UNCHANGED <<imageVars, borderVars, particleVars, laterVars>>

\* ParticleFinder.get_particles_from_binary_image(source, particleClass)
FindInBinary ==
    /\ found = Unset
    /\ source.kind = "binary"
    /\ \E particleClass \in {"Particle", "Nucleus"} :
        LET L == ImageBinary_label(source.image)
            r == get_particles_from_labeled_image(L, source.aspect, particleClass)
        IN  /\ found' = [raised |-> r.raised, value |-> r.out, cls |-> particleClass,
                         L0 |-> L._pixels, L1 |-> r.L._pixels]
            /\ source' = source
    /\ UNCHANGED <<imageVars, borderVars, particleVars, laterVars>>

NextFinder ==
    \/ FindInLabeled
    \/ FindInBinary

SpecFinder ==
    InitFinder /\ [][NextFinder]_vars

(***************************************************************************)
(* Claims about the particle finder, checked under SpecFinder.             *)
(***************************************************************************)
\* the distinct non-zero labels of a labeled array
LabelsOf(A) ==
    Values(A) \ {0}

\* the number of voxels of A that carry a label
CountOf(A, particle_label) ==
    Cardinality({c \in DOMAIN A.nz : A.nz[c] = particle_label})

\* the finder was called on the result of labeling a mask
FoundAfterLabeling ==
    found # Unset /\ source.relabeled

\* the particles match the labels one to one, with equal voxel counts
OneParticlePerLabel ==
    /\ Len(found.value) = Cardinality(LabelsOf(found.L0))
    /\ \A particle_label \in LabelsOf(found.L0) :
        \E i \in 1..Len(found.value) :
            /\ found.value[i].idx = IntVal(particle_label)
            /\ ImageBinary_foreground(found.value[i]) = CountOf(found.L0, particle_label)

\* C1: for every binary mask, labeling and then extraction returns exactly
\* one particle per distinct non-zero label, and each particle has as many
\* occupied voxels as the labeled image has voxels of its label.
C1_OneParticlePerLabel ==
    FoundAfterLabeling => OneParticlePerLabel

\* what does hold: the calls that return, return one particle per label
C1_HoldsWhenTheCallReturns ==
    (FoundAfterLabeling /\ found.raised = "none") => OneParticlePerLabel

\* C9: extraction from a labeled image fails on the monochromatic check
\* exactly when the image's minimum equals its maximum, and then returns no
\* particle.
C9_MonochromaticImageRejected ==
    found # Unset =>
        /\ (found.raised = MonochromeMsg) <=> (ArrMin(found.L0) = ArrMax(found.L0))
        /\ found.raised = MonochromeMsg => found.value = <<>>

\* a flat image of a non-zero label, rejected
C9_Witness ==
    /\ found # Unset
    /\ found.raised = MonochromeMsg
    /\ ArrMin(found.L0) > 0
    /\ found.value = <<>>

\* a labeled image with two values, past the check
C9_WitnessAccepted ==
    /\ found # Unset
    /\ found.raised = "none"
    /\ Len(found.value) >= 1

\* C10: extraction leaves the labeled image's sample array as it was before
\* the call, whether the call returns or fails.
C10_SourceNotMutated ==
    found # Unset =>
        /\ found.L1 = found.L0
        /\ source.kind = "labeled" => source.image._pixels = found.L0

C10_Witness ==
    /\ found # Unset
    /\ source.kind = "labeled"
    /\ found.raised = "none"
    /\ Len(found.value) >= 1
    /\ source.image._pixels = found.L0

(***************************************************************************)
(* One particle and its cached features: total_size and volume are read in *)
(* any order.                                                              *)
(***************************************************************************)
ParticleShapes ==
    {<<2, 2>>, <<2, 2, 2>>}

\* the boolean arrays that are the crop of a component to its bounding box
ParticleMasks ==
    {A \in UNION {{FromDense(sh, d) : d \in [Coords(sh) -> {0, 1}]} : sh \in ParticleShapes} :
        /\ DOMAIN A.nz # {}
        /\ BoundingElement_shape(BoundingElement_from_binary_pixels(A)) = A.shape}

\* the particles a finder can return for such a mask
ParticleInputs ==
    {r.obj : r \in {c \in {Particle_init("Nucleus", A, BoundingElement_from_binary_pixels(A),
                                         <<"Z", "Y", "X">>) : A \in ParticleMasks} : c.ok}}

InitParticle ==
    /\ \E p \in ParticleInputs :
        \E a \in [1..Rank(p._pixels) -> 1..MaxHalves] :
            part = [p EXCEPT !.aspect = a, !.idx = IntVal(1)]
    /\ vol = Unset
    /\ imageIdle
    /\ borderIdle
    /\ finderIdle
    /\ laterIdle

ReadTotalSize ==
    /\ part' = ParticleBase_total_size(part).obj
    /\ UNCHANGED vol
    /\ UNCHANGED <<imageVars, borderVars, finderVars, laterVars>>

ReadVolume ==
    /\ LET r == ParticleBase_volume(part)
       IN  /\ part' = r.obj
           /\ vol' = IntVal(r.value)
    /\ UNCHANGED <<imageVars, borderVars, finderVars, laterVars>>

NextParticle ==
    \/ ReadTotalSize
    \/ ReadVolume

SpecParticle ==
    InitParticle /\ [][NextParticle]_vars

(***************************************************************************)
(* Claims about the particle features, checked under SpecParticle.         *)
(***************************************************************************)
AspectAllOnes ==
    \A i \in 1..Len(part.aspect) : part.aspect[i] = 2

\* C2 (as stated): the volume equals the voxel count times the product of
\* the aspect ratios, and the voxel count itself when the aspect is all ones.
C2_VolumeIsCountTimesAspect ==
    vol # Unset =>
        /\ vol.v * HalvesScale(part.aspect)
                = ImageBinary_foreground(part) * HalvesProduct(part.aspect)
        /\ AspectAllOnes => vol.v = ImageBinary_foreground(part)

\* C2 (amended): the volume is the integer part of the voxel count times the
\* product of the aspect ratios, and the voxel count itself when the aspect
\* is all ones.
C2_VolumeIsTruncatedProduct ==
    vol # Unset =>
        /\ vol.v * HalvesScale(part.aspect)
                <= ImageBinary_foreground(part) * HalvesProduct(part.aspect)
        /\ ImageBinary_foreground(part) * HalvesProduct(part.aspect)
                < (vol.v + 1) * HalvesScale(part.aspect)
        /\ AspectAllOnes => vol.v = ImageBinary_foreground(part)

\* a volume read where the product is not an integer
C2_Witness ==
    /\ vol # Unset
    /\ part._total_size = IntVal(ImageBinary_foreground(part))
    /\ vol.v * HalvesScale(part.aspect)
            < ImageBinary_foreground(part) * HalvesProduct(part.aspect)

\* a volume read with an aspect of all ones
C2_WitnessAllOnes ==
    /\ vol # Unset
    /\ AspectAllOnes
    /\ vol.v = ImageBinary_foreground(part)
    /\ vol.v >= 2

(***************************************************************************)
(* Buffers.  A numpy array has an identity: two names can refer to the     *)
(* same buffer, and a write through one is seen through the other.  The    *)
(* heap is the sequence of the buffers allocated so far; an object whose   *)
(* _pixels is Ref(id) holds buffer id.                                     *)
(***************************************************************************)
Ref(id) ==
    [tag |-> "ref", id |-> id]

\* an operation working in place: its result overwrites its operand
Alloc_InPlace(h, src) ==
    src

\* pixels.copy(), a comparison, label() and clear_border() return a new
\* array: the buffer the result of an operation on buffer src is stored in
Alloc(h, src) ==
    Len(h) + 1

Store(h, id, A) ==
    IF id = Len(h) + 1 THEN Append(h, A) ELSE [h EXCEPT ![id] = A]

\* the object with the content of its buffer in place of the reference
Deref(h, obj) ==
    [obj EXCEPT !._pixels = h[obj._pixels.id]]

\* A[c] = v
SetAt(A, c, v) ==
    NdArray(A.shape,
            [x \in (IF v = 0 THEN DOMAIN A.nz \ {c} ELSE DOMAIN A.nz \cup {c}) |->
                IF x = c THEN v ELSE A.nz[x]])

\* clear_XY_borders(L) for the buffer L = h[id]: the heap after the call and
\* the buffer returned.  The 3D branch zeroes the border labels in L itself.
Heap_clear_XY_borders(h, id) ==
    IF Rank(h[id]) = 2
    THEN LET n == Alloc(h, id)
         IN  [heap |-> Store(h, n, clear_border(h[id])), ret |-> n]
    ELSE IF Rank(h[id]) = 3
    THEN LET h1 == Store(h, id, ZeroLabels(h[id], FaceLabels(h[id], {2, 3})))
             n == Alloc(h1, id)
         IN  [heap |-> Store(h1, n, label(h1[id])), ret |-> n]
    ELSE [heap |-> h, ret |-> id]

\* clear_Z_borders(L) for the buffer L = h[id]
Heap_clear_Z_borders(h, id) ==
    IF Rank(h[id]) = 3
    THEN LET h1 == Store(h, id, ZeroLabels(h[id], FaceLabels(h[id], {1})))
             n == Alloc(h1, id)
         IN  [heap |-> Store(h1, n, label(h1[id])), ret |-> n]
    ELSE [heap |-> h, ret |-> id]

\* the particles returned by the finder, each with the buffer its
\* constructor keeps (ImageBase.__init__: self._pixels = pixels.copy())
RECURSIVE StoreParticles(_, _, _)
StoreParticles(st, src, out) ==
    IF out = <<>> THEN st
    ELSE LET id == Alloc(st.heap, src)
         IN  StoreParticles([heap |-> Store(st.heap, id, Head(out)._pixels),
                             list |-> Append(st.list, [Head(out) EXCEPT !._pixels = Ref(id)])],
                            src, Tail(out))

(***************************************************************************)
(* A labeled image and the particles extracted from it: after the          *)
(* extraction the image is written to, border-cleared and unloaded.        *)
(***************************************************************************)
OwnerPlane ==
    <<2, 2>>

OwnerStack ==
    <<1, 2, 2>>

\* a plane of two labels, each a diagonal pair of voxels
TwoLabelPlane ==
    NdArray(<<2, 3>>, (<<1, 1>> :> 1 @@ <<2, 2>> :> 1 @@ <<1, 2>> :> 2 @@ <<2, 3>> :> 2))

\* ImageLabeled(A) of a mask, and ImageLabeled(A, doRelabel=False) of labels
OwnerSources ==
    {[A |-> A, doRelabel |-> TRUE] :
        A \in SparseArrays(OwnerPlane, MaxFg, {1}) \cup SparseArrays(OwnerStack, MaxFg, {1})}
        \cup {[A |-> TwoLabelPlane, doRelabel |-> FALSE]}

InitOwner ==
    /\ \E src \in OwnerSources :
        LET L == ImageLabeled_init(src.A, NoneVal, src.doRelabel)
        IN  /\ heap = <<L._pixels>>
            /\ parent = [L EXCEPT !._pixels = Ref(1)]
    /\ owned = [done |-> FALSE, list |-> <<>>, mask0 |-> <<>>, count0 |-> <<>>]
    /\ nOps = 0
    /\ imageIdle
    /\ borderIdle
    /\ finderIdle
    /\ particleIdle
    /\ binarizerIdle
    /\ fieldsIdle
    /\ nucleiIdle
    /\ distanceIdle
    /\ recentIdle

\* ParticleFinder.get_particles_from_labeled_image(parent, Nucleus)
OwnerExtract ==
    /\ ~owned.done
    /\ LET L == Deref(heap, parent)
           r == get_particles_from_labeled_image(L, FinderAspect(L._pixels), "Nucleus")
           st == StoreParticles([heap |-> heap, list |-> <<>>], parent._pixels.id, r.out)
       IN  /\ heap' = st.heap
           /\ owned' = [done |-> TRUE, list |-> st.list,
                        mask0 |-> [i \in 1..Len(r.out) |-> r.out[i]._pixels],
                        count0 |-> [i \in 1..Len(r.out) |-> ImageBinary_foreground(r.out[i])]]
    /\ UNCHANGED <<parent, nOps, errlog>>
    /\ UNCHANGED ownerRest

\* parent.pixels[c] = v: the accessor hands out the buffer itself
OwnerWrite ==
    /\ owned.done
    /\ nOps < MaxOps
    /\ \E c \in Coords(heap[parent._pixels.id].shape), v \in 0..MaxVal :
        heap' = Store(heap, parent._pixels.id, SetAt(heap[parent._pixels.id], c, v))
    /\ nOps' = nOps + 1
    /\ UNCHANGED <<parent, owned, errlog>>
    /\ UNCHANGED ownerRest

\* parent.clear_XY_borders()
OwnerClearXY ==
    /\ owned.done
    /\ nOps < MaxOps
    /\ LET r == Heap_clear_XY_borders(heap, parent._pixels.id)
       IN  /\ heap' = r.heap
           /\ parent' = [parent EXCEPT !._pixels = Ref(r.ret)]
    /\ nOps' = nOps + 1
    /\ UNCHANGED <<owned, errlog>>
    /\ UNCHANGED ownerRest

\* parent.clear_Z_borders()
OwnerClearZ ==
    /\ owned.done
    /\ nOps < MaxOps
    /\ LET r == Heap_clear_Z_borders(heap, parent._pixels.id)
       IN  /\ heap' = r.heap
           /\ parent' = [parent EXCEPT !._pixels = Ref(r.ret)]
    /\ nOps' = nOps + 1
    /\ UNCHANGED <<owned, errlog>>
    /\ UNCHANGED ownerRest

\* parent.unload()
OwnerUnload ==
    /\ owned.done
    /\ nOps < MaxOps
    /\ LET r == ImageBase_unload(parent, errlog)
       IN  /\ parent' = r.obj
           /\ errlog' = r.log
    /\ nOps' = nOps + 1
    /\ UNCHANGED <<heap, owned>>
    /\ UNCHANGED ownerRest

NextOwner ==
    \/ OwnerExtract
    \/ OwnerWrite
    \/ OwnerClearXY
    \/ OwnerClearZ
    \/ OwnerUnload

SpecOwner ==
    InitOwner /\ [][NextOwner]_vars

(***************************************************************************)
(* Claims about the particles' buffers, checked under SpecOwner.           *)
(***************************************************************************)
\* C11: each extracted particle owns a copy of its cropped mask: whatever is
\* later written to the parent image, and whether it is border-cleared or
\* unloaded, every particle's mask and voxel count stay what they were when
\* the particle was extracted.
C11_ParticlesOwnTheirMask ==
    \A i \in 1..Len(owned.list) :
        /\ heap[owned.list[i]._pixels.id] = owned.mask0[i]
        /\ ImageBinary_foreground(Deref(heap, owned.list[i])) = owned.count0[i]

\* two particles, and a parent whose buffer was written to and then replaced
C11_Witness ==
    /\ Len(owned.list) = 2
    /\ nOps >= 2
    /\ heap[1] # TwoLabelPlane
    /\ parent._pixels.id # 1

\* a stack whose only component was zeroed in place by the XY clearing
C11_WitnessStack ==
    /\ Len(owned.list) = 1
    /\ Rank(heap[1]) = 3
    /\ DOMAIN heap[1].nz = {}
    /\ parent._pixels.id # 1
    /\ DOMAIN heap[owned.list[1]._pixels.id].nz # {}

(***************************************************************************)
(* radiantkit/segmentation.py: BinarizerSettings and Binarizer.            *)
(***************************************************************************)
\* the class attribute _local_side
DefaultLocalSide ==
    101

\* Binarizer(): the class attributes of BinarizerSettings
Binarizer_init ==
    [segmentation_type |-> "None", do_global |-> TRUE, do_local |-> TRUE,
     _local_side |-> DefaultLocalSide, local_method |-> "median", local_mode |-> "constant",
     local_closing |-> TRUE, do_clear_XY_borders |-> TRUE, do_clear_Z_borders |-> FALSE,
     do_fill_holes |-> TRUE]

\* the local_side property
Binarizer_local_side(self) ==
    self._local_side

\* the local_side setter: if 0 != value % 2: value += 1
Binarizer_set_local_side(self, value) ==
    [self EXCEPT !._local_side = IF 0 # value % 2 THEN value + 1 ELSE value]

StrVal(v) ==
    [tag |-> "str", v |-> v]

\* a record sent to the logger: its level, its text and the value it quotes
LogRecord(level, msg, arg) ==
    [level |-> level, msg |-> msg, arg |-> arg]

\* the outcome of a call that ends with an exception
Raise(err, steps, log) ==
    [value |-> NoneVal, raised |-> err, steps |-> steps, log |-> log]

\* the outcome of a call that returns
Return(value, steps, log) ==
    [value |-> value, raised |-> "none", steps |-> steps, log |-> log]

\* a run that never takes the early return
NoThreshold_Never(self) ==
    FALSE

\* not self.do_global and not self.do_local
NoThreshold(self) ==
    ~self.do_global /\ ~self.do_local

\* Binarizer.run(I, mask2d) for an array I.  After the early return every
\* path ends with an exception before a mask exists: Image.z_project and
\* Image.threshold_adaptive are instance methods and read I.pixels of the
\* array they are handed, Image has no `close`, and with no mask appended
\* mask[0] fails.  `steps` names the computations that were carried out.
Binarizer_run(self, I, mask2d) ==
    IF NoThreshold(self)
    THEN Return(I, {}, <<LogRecord("warning", "no threshold applied.", NoneVal)>>)
    ELSE IF self.segmentation_type \in {"SUM_PROJECTION", "MAX_PROJECTION"}
    THEN Raise("AttributeError", {},
               <<LogRecord("info", "projecting over Z", StrVal(self.segmentation_type))>>)
    ELSE IF self.do_global
    THEN Raise("AttributeError", {"threshold_otsu"},
               <<LogRecord("info", "applying global threshold", NoneVal)>>)
    ELSE IF self.do_local /\ 1 < Binarizer_local_side(self)
    THEN Raise("AttributeError", {},
               <<LogRecord("info", "applying adaptive threshold to neighbourhood with side",
                           IntVal(Binarizer_local_side(self)))>>)
    ELSE Raise("IndexError", {}, <<>>)

\* A[keep] for a boolean selection: the selected samples, in raster order
Selected(A, keep) ==
    NdArray(<<Cardinality(keep)>>,
            [k \in {<<i>> : i \in 1..Cardinality(keep)} |->
                A.nz[CHOOSE c \in keep :
                        Cardinality({d \in keep : RasterBefore(d, c)}) = k[1] - 1]])

\* mask[-2:].shape: the last two entries along the first axis
LastTwoAlongFirstAxis(shape) ==
    <<IF Head(shape) < 2 THEN Head(shape) ELSE 2>> \o Tail(shape)

\* Binarizer.inherit_labels(mask, mask2d)
Binarizer_inherit_labels(mask, mask2d) ==
    IF 2 # Rank(mask2d) THEN Raise("AssertionError", {}, <<>>)
    ELSE IF 2 = Rank(mask)
    THEN IF mask2d.shape # mask.shape THEN Raise("AssertionError", {}, <<>>)
         ELSE Return(Selected(mask2d, DOMAIN mask.nz \cap DOMAIN mask2d.nz), {}, <<>>)
    ELSE IF 3 = Rank(mask)
    THEN IF mask2d.shape # LastTwoAlongFirstAxis(mask.shape)
         THEN Raise("AssertionError", {}, <<>>)
         \* not reached: the shape of mask[-2:] has three entries
         ELSE Raise("ValueError", {}, <<>>)
    \* `self` is not defined in a static method
    ELSE Raise("NameError", {}, <<>>)

(***************************************************************************)
(* A Binarizer: its settings are assigned in any order, then run() or      *)
(* inherit_labels() is called.                                             *)
(***************************************************************************)
BinarizerPlane ==
    <<2, 2>>

BinarizerStack ==
    <<2, 2, 2>>

\* the masks handed to inherit_labels(): planes, stacks and a row
BinarizerImages ==
    SparseArrays(BinarizerPlane, MaxFg, {1}) \cup SparseArrays(BinarizerStack, 1, {1})
        \cup {Full(<<2>>, 1)}

\* the images handed to run(): a plane and a stack
RunImages ==
    {Full(BinarizerPlane, MaxVal), Full(BinarizerStack, MaxVal)}

\* the 2D masks of labels, of the images' row/column shape or not, and a
\* stack in their place
BinarizerMasks ==
    SparseArrays(BinarizerPlane, MaxFg, {MaxVal}) \cup SparseArrays(<<2, 3>>, 1, {MaxVal})
        \cup {Full(BinarizerStack, 1)}

InitBinarizer ==
    /\ binz = Binarizer_init
    /\ binSet = Unset
    /\ binRet = Unset
    /\ binLog = <<>>
    /\ imageIdle
    /\ borderIdle
    /\ finderIdle
    /\ particleIdle
    /\ ownerIdle
    /\ fieldsIdle
    /\ nucleiIdle
    /\ distanceIdle
    /\ recentIdle

\* binarizer.local_side = value
SetLocalSide ==
    /\ binRet = Unset
    /\ \E value \in (0 - MaxSide)..MaxSide :
        /\ binz' = Binarizer_set_local_side(binz, value)
        /\ binSet' = IntVal(value)
    /\ UNCHANGED <<binRet, binLog>>
    /\ UNCHANGED binarizerRest

\* binarizer.do_global = g; binarizer.do_local = l
SetThresholds ==
    /\ binRet = Unset
    /\ \E g \in BOOLEAN, l \in BOOLEAN :
        binz' = [binz EXCEPT !.do_global = g, !.do_local = l]
    /\ UNCHANGED <<binSet, binRet, binLog>>
    /\ UNCHANGED binarizerRest

\* binarizer.segmentation_type = t
SetSegmentationType ==
    /\ binRet = Unset
    /\ \E t \in {"SUM_PROJECTION", "MAX_PROJECTION", "3D"} :
        binz' = [binz EXCEPT !.segmentation_type = t]
    /\ UNCHANGED <<binSet, binRet, binLog>>
    /\ UNCHANGED binarizerRest

\* binarizer.run(I, mask2d)
Run ==
    /\ binRet = Unset
    /\ \E I \in RunImages, mask2d \in BinarizerMasks \cup {NoneVal} :
        LET r == Binarizer_run(binz, I, mask2d)
        IN  /\ binRet' = [op |-> "run", self |-> binz, I |-> I, mask2d |-> mask2d,
                          value |-> r.value, raised |-> r.raised, steps |-> r.steps]
            /\ binLog' = r.log
    /\ UNCHANGED <<binz, binSet>>
    /\ UNCHANGED binarizerRest

\* Binarizer.inherit_labels(mask, mask2d)
InheritLabels ==
    /\ binRet = Unset
    /\ \E mask \in BinarizerImages, mask2d \in BinarizerMasks :
        LET r == Binarizer_inherit_labels(mask, mask2d)
        IN  /\ binRet' = [op |-> "inherit_labels", self |-> binz, I |-> mask,
                          mask2d |-> mask2d, value |-> r.value, raised |-> r.raised,
                          steps |-> r.steps]
            /\ binLog' = r.log
    /\ UNCHANGED <<binz, binSet>>
    /\ UNCHANGED binarizerRest

NextBinarizer ==
    \/ SetLocalSide
    \/ SetThresholds
    \/ SetSegmentationType
    \/ Run
    \/ InheritLabels

SpecBinarizer ==
    InitBinarizer /\ [][NextBinarizer]_vars

(***************************************************************************)
(* Claims about the Binarizer, checked under SpecBinarizer.                *)
(***************************************************************************)
\* C12 (as stated): every integer assigned to local_side is accepted, and
\* the side kept for local thresholding is odd: the next odd value for an
\* even one, the value itself for an odd one.
C12_LocalSideIsOdd ==
    binSet # Unset =>
        /\ Binarizer_local_side(binz) % 2 = 1
        /\ binSet.v % 2 = 0 => Binarizer_local_side(binz) = binSet.v + 1
        /\ binSet.v % 2 = 1 => Binarizer_local_side(binz) = binSet.v

\* what the setter does: the side kept is even, the next even value for an
\* odd one
C12_LocalSideIsEven ==
    binSet # Unset =>
        /\ Binarizer_local_side(binz) % 2 = 0
        /\ binSet.v % 2 = 0 => Binarizer_local_side(binz) = binSet.v
        /\ binSet.v % 2 = 1 => Binarizer_local_side(binz) = binSet.v + 1

\* the last call was run() with both thresholds disabled
RanWithoutThreshold ==
    /\ binRet # Unset
    /\ binRet.op = "run"
    /\ ~binRet.self.do_global
    /\ ~binRet.self.do_local

\* C13: with global and local thresholding both disabled, run() logs the
\* condition, carries out no projection, thresholding, border clearing or
\* hole filling, and returns its input unchanged.
C13_NoThresholdRunIsNoOp ==
    RanWithoutThreshold =>
        /\ binRet.raised = "none"
        /\ binRet.value = binRet.I
        /\ binRet.steps = {}
        /\ binLog = <<LogRecord("warning", "no threshold applied.", NoneVal)>>

\* such a run on a stack, with a projection asked for and a 2D mask supplied
C13_Witness ==
    /\ RanWithoutThreshold
    /\ binRet.self.segmentation_type = "MAX_PROJECTION"
    /\ binRet.self.do_clear_XY_borders
    /\ binRet.self.do_fill_holes
    /\ Rank(binRet.I) = 3
    /\ binRet.mask2d # NoneVal
    /\ binRet.value = binRet.I

\* the last call was handed a 2D mask for a 2D or 3D image
CalledWithMask2D ==
    /\ binRet # Unset
    /\ binRet.mask2d # NoneVal
    /\ Rank(binRet.mask2d) = 2
    /\ Rank(binRet.I) \in {2, 3}

\* the row/column shape of the mask is the row/column shape of the image
MaskShapeMatches ==
    binRet.mask2d.shape = SliceLast(binRet.I.shape, 2)

\* C14: run() and inherit_labels() reject a 2D mask whose row/column shape
\* differs from the image's (a 2D image, or the slices of a 3D one) and
\* accept a 2D mask whose shape matches.
C14_MaskShapeChecked ==
    CalledWithMask2D => (binRet.raised = "none" <=> MaskShapeMatches)

\* what does hold: inherit_labels() on a 2D image checks the shape
C14_HoldsForInheritanceOnPlanes ==
    (CalledWithMask2D /\ binRet.op = "inherit_labels" /\ Rank(binRet.I) = 2)
        => (binRet.raised = "none" <=> MaskShapeMatches)

\* the last call was inherit_labels() with a 2D mask of labels of the
\* row/column shape of a 2D or 3D mask
InheritedLabels ==
    /\ CalledWithMask2D
    /\ binRet.op = "inherit_labels"
    /\ MaskShapeMatches

\* the label the 2D mask of labels holds under a voxel of the mask
LabelUnder(mask2d, c) ==
    At(mask2d, SliceLast(c, 2))

\* C24 (as stated): label inheritance returns a mask of the shape of the
\* input mask in which every voxel that is foreground in the mask and lies
\* over a non-zero pixel of the 2D mask of labels carries that pixel's
\* label (in every depth slice of a 3D mask), and every other voxel is 0.
C24_InheritedMaskCarriesLabels ==
    InheritedLabels =>
        /\ binRet.raised = "none"
        /\ binRet.value.shape = binRet.I.shape
        /\ \A c \in Coords(binRet.I.shape) :
            At(binRet.value, c) =
                IF At(binRet.I, c) > 0 /\ LabelUnder(binRet.mask2d, c) > 0
                THEN LabelUnder(binRet.mask2d, c)
                ELSE 0

\* what inherit_labels() returns for a 2D mask: the labels under the
\* foreground of the mask, one after the other in raster order, as a 1-D
\* array with one entry per overlapping voxel; for a 3D mask it raises
C24_ReturnsTheOverlappingLabelsOnly ==
    InheritedLabels =>
        IF Rank(binRet.I) = 2
        THEN /\ binRet.raised = "none"
             /\ binRet.value.shape
                    = <<Cardinality(DOMAIN binRet.I.nz \cap DOMAIN binRet.mask2d.nz)>>
        ELSE binRet.raised = "AssertionError"

\* the last call was run() with a threshold enabled
RanWithThreshold ==
    /\ binRet # Unset
    /\ binRet.op = "run"
    /\ binRet.self.do_global \/ binRet.self.do_local

\* C30 (as stated): whenever global or local thresholding is enabled, for
\* every local side, 0 and 1 included, run() reaches the combine step with
\* at least one computed mask and returns a mask.
C30_RunReturnsAMask ==
    RanWithThreshold =>
        /\ binRet.raised = "none"
        /\ binRet.value # NoneVal
        /\ binRet.value.shape = SliceLast(binRet.I.shape, Rank(binRet.value))

\* what run() does with a threshold enabled: it ends with an exception, and
\* with local thresholding alone and a side of 0 or 1 (or below) no mask is
\* computed and mask[0] fails
C30_RunRaisesWithThreshold ==
    RanWithThreshold =>
        /\ binRet.raised \in {"AttributeError", "IndexError"}
        /\ (/\ ~binRet.self.do_global
            /\ binRet.self.segmentation_type \notin {"SUM_PROJECTION", "MAX_PROJECTION"}
            /\ Binarizer_local_side(binRet.self) <= 1)
                => binRet.raised = "IndexError"

(***************************************************************************)
(* NucleiList.from_multiple_fields_of_view: one call of                    *)
(* NucleiList.from_field_of_view per entry of the list, in a loop when     *)
(* threads is 1 and through joblib.Parallel(n_jobs=threads) otherwise.     *)
(* Parallel starts the calls in list order, runs at most n_jobs at a time, *)
(* hands back their results in list order and re-raises in the caller the  *)
(* exception of a call that failed.                                        *)
(***************************************************************************)
MaxFields == 3

MaxThreads == 3

\* the names of the fields of view on disk: a raw image and a mask each
FieldNames ==
    {"a", "b"}

\* os.path.join(ipath, name)
PathJoin(ipath, name) ==
    <<ipath, name>>

\* an entry of masklist: (rawpath, maskpath)
FieldEntry(name) ==
    [rawpath |-> <<name, "raw.tif">>, maskpath |-> <<name, "mask.tif">>]

\* the lists of at most n fields, repetitions included
MaskLists(n) ==
    UNION {[1..k -> {FieldEntry(f) : f \in FieldNames}] : k \in 0..n}

\* an exception leaves the call
Raised(err) ==
    [raised |-> err, value |-> NoneVal]

\* the call returns a value
Returned(value) ==
    [raised |-> "none", value |-> value]

\* NucleiList(nuclei)
NucleiList_init(list) ==
    [cls |-> "NucleiList", nuclei |-> list]

\* a property that hands out only the nuclei holding an intensity
NucleiList_nuclei_WithIntensity(self) ==
    SelectSeq(self.nuclei, LAMBDA n : DOMAIN n._intensity # {})

\* the `nuclei` property: a copy of the list
NucleiList_nuclei(self) ==
    self.nuclei

\* itertools.chain(*lists)
RECURSIVE Chain(_)
Chain(lists) ==
    IF lists = <<>> THEN <<>> ELSE Head(lists) \o Chain(Tail(lists))

\* NucleiList.concat(lists)
NucleiList_concat(lists) ==
    NucleiList_init(Chain([i \in 1..Len(lists) |-> NucleiList_nuclei(lists[i])]))

\* calling a function that has `required` parameters without a default
\* among `total` parameters with `given` positional arguments
BindArguments(required, total, given) ==
    IF given < required \/ given > total THEN "TypeError" ELSE "none"

\* ImageBinary.from_tiff(maskpath): a staticmethod declared as
\* from_tiff(self, path, doRebinarize=True), so the one argument is bound to
\* `self` and `path` is missing
ImageBinary_from_tiff_call(given) ==
    BindArguments(2, 3, given)

\* NucleiList.from_field_of_view(maskpath, rawpath, do_rescale), as one call:
\* the raw image is read, then the mask is asked for
NucleiList_from_field_of_view(maskpath, rawpath, do_rescale) ==
    IF ImageBinary_from_tiff_call(1) # "none"
    THEN Raised(ImageBinary_from_tiff_call(1))
    ELSE Returned(NucleiList_init(<<>>))

\* the loop taken when threads is 1: the first exception leaves the loop
RECURSIVE FieldsLoop(_, _, _, _)
FieldsLoop(masklist, ipath, do_rescale, done) ==
    IF masklist = <<>> THEN Returned(done)
    ELSE LET e == Head(masklist)
             r == NucleiList_from_field_of_view(PathJoin(ipath, e.maskpath),
                                                PathJoin(ipath, e.rawpath), do_rescale)
         IN  IF r.raised # "none" THEN r
             ELSE FieldsLoop(Tail(masklist), ipath, do_rescale, Append(done, r.value))

\* from_multiple_fields_of_view(masklist, ipath, do_rescale, threads=1)
NucleiList_from_multiple_fields_of_view(masklist, ipath, do_rescale) ==
    LET r == FieldsLoop(masklist, ipath, do_rescale, <<>>)
    IN  IF r.raised # "none" THEN r ELSE Returned(NucleiList_concat(r.value))

\* an object that several calls share
NewObject_Shared(made_so_far) ==
    1

\* the identity of an object made by a call: a fresh one
NewObject(made_so_far) ==
    Len(made_so_far) + 1

\* a per-field call that has not started
QueuedJob(e, ipath) ==
    [pc |-> "queued", maskpath |-> PathJoin(ipath, e.maskpath),
     rawpath |-> PathJoin(ipath, e.rawpath), img |-> NoneVal, out |-> Unset]

\* the calls under way
Running ==
    {i \in 1..Len(jobs) : jobs[i].pc \in {"started", "img"}}

\* the calls that ended
Ended ==
    {i \in 1..Len(jobs) : jobs[i].pc = "ended"}

\* the calls that ended with an exception
Failed ==
    {i \in Ended : jobs[i].out.raised # "none"}

InitFields ==
    /\ \E masklist \in MaskLists(MaxFields), threads \in 1..MaxThreads, do_rescale \in BOOLEAN :
        /\ fov = [masklist |-> masklist, ipath |-> "ipath", do_rescale |-> do_rescale,
                  threads |-> threads]
        /\ jobs = [i \in 1..Len(masklist) |-> QueuedJob(masklist[i], "ipath")]
    /\ objs = <<>>
    /\ writes = {}
    /\ fovRet = Unset
    /\ earlierIdle
    /\ nucleiIdle
    /\ distanceIdle
    /\ recentIdle

\* the next entry of the list is taken: by the loop once the call before it
\* returned, by Parallel while fewer than n_jobs calls are under way
Dispatch ==
    /\ fovRet = Unset
    /\ \E i \in 1..Len(jobs) :
        /\ jobs[i].pc = "queued"
        /\ \A j \in 1..(i - 1) : jobs[j].pc # "queued"
        /\ Cardinality(Running) < fov.threads
        /\ fov.threads = 1 => Failed = {}
        /\ jobs' = [jobs EXCEPT ![i].pc = "started"]
    /\ UNCHANGED <<fov, objs, writes, fovRet, fieldsRest>>

\* img = ImageGrayScale.from_tiff(rawpath, do_rescale=do_rescale): the call
\* makes an image and fills its buffer
LoadRaw ==
    /\ fovRet = Unset
    /\ \E i \in Running :
        /\ jobs[i].pc = "started"
        /\ LET id == NewObject(objs)
           IN  /\ jobs' = [jobs EXCEPT ![i].pc = "img", ![i].img = Ref(id)]
               /\ objs' = IF id > Len(objs) THEN Append(objs, i) ELSE objs
               /\ writes' = writes \cup {[obj |-> id, by |-> i]}
    /\ UNCHANGED <<fov, fovRet, fieldsRest>>

\* mask = ImageBinary.from_tiff(maskpath): the call ends here with the
\* exception; in the loop the exception leaves from_multiple_fields_of_view
\* at once
LoadMask ==
    /\ fovRet = Unset
    /\ \E i \in Running :
        /\ jobs[i].pc = "img"
        /\ LET r == NucleiList_from_field_of_view(jobs[i].maskpath, jobs[i].rawpath,
                                                  fov.do_rescale)
           IN  /\ jobs' = [jobs EXCEPT ![i].pc = "ended", ![i].out = r]
               /\ fovRet' = IF fov.threads = 1 /\ r.raised # "none" THEN r ELSE fovRet
    /\ UNCHANGED <<fov, objs, writes, fieldsRest>>

\* the caller collects: Parallel re-raises the exception of a failed call;
\* with every call returned, the lists are concatenated in list order
Collect ==
    /\ fovRet = Unset
    /\ \/ /\ Failed # {}
          /\ fov.threads > 1
          /\ \E i \in Failed : fovRet' = jobs[i].out
       \/ /\ Ended = 1..Len(jobs)
          /\ Failed = {}
          /\ fovRet' = Returned(NucleiList_concat([i \in 1..Len(jobs) |-> jobs[i].out.value]))
    /\ UNCHANGED <<fov, jobs, objs, writes, fieldsRest>>

NextFields ==
    \/ Dispatch
    \/ LoadRaw
    \/ LoadMask
    \/ Collect

SpecFields ==
    InitFields /\ [][NextFields]_vars

(***************************************************************************)
(* Claims about the fields of view, checked under SpecFields.              *)
(***************************************************************************)
\* C15: for every list of fields, worker count and interleaving,
\* from_multiple_fields_of_view returns the per-field lists concatenated in
\* the order of the input list, so the result with threads > 1 is the result
\* with threads = 1.
C15_ReturnsListsInInputOrder ==
    fovRet # Unset =>
        /\ fovRet.raised = "none"
        /\ \A i \in 1..Len(jobs) : jobs[i].pc = "ended" /\ jobs[i].out.raised = "none"
        /\ fovRet.value = NucleiList_concat([i \in 1..Len(jobs) |-> jobs[i].out.value])

\* what does hold: whatever the worker count and the interleaving, the call
\* ends as the loop over the same list ends
C15_SameOutcomeForAnyWorkers ==
    fovRet # Unset =>
        fovRet = NucleiList_from_multiple_fields_of_view(fov.masklist, fov.ipath,
                                                         fov.do_rescale)

\* several calls were under way at once and a later entry failed first
C15_OutOfOrder ==
    /\ fovRet # Unset
    /\ fov.threads > 1
    /\ \E i \in Failed : \E j \in Running : j < i

\* C16: during the parallel per-field extraction no object is written by
\* more than one worker: each worker writes only what it made for its own
\* field.
C16_NoObjectHasTwoWriters ==
    /\ \A w \in writes : objs[w.obj] = w.by
    /\ \A w1, w2 \in writes : w1.obj = w2.obj => w1.by = w2.by
    /\ \A i, j \in 1..Len(jobs) :
        (i # j /\ jobs[i].img # NoneVal /\ jobs[j].img # NoneVal) => jobs[i].img # jobs[j].img

\* two workers are under way at once and each has filled its image
C16_Witness ==
    /\ fov.threads > 1
    /\ \E i, j \in Running :
        /\ i # j
        /\ jobs[i].pc = "img"
        /\ jobs[j].pc = "img"
        /\ {i, j} \subseteq {w.by : w \in writes}

(***************************************************************************)
(* A NucleiList and its table: nuclei as the finder makes them, with the   *)
(* intensity features and the source that from_field_of_view gives them,   *)
(* are gathered with concat; get_data and select_G1 are called on the      *)
(* list.  The cell-cycle fit service (cell_cycle_fit, range_from_fit) is a *)
(* black box: each of its answers is any of the outcomes it can give.      *)
(***************************************************************************)
MaxNuclei == 2

\* np.nan
NaN ==
    [tag |-> "nan"]

\* the channels an intensity can be stored under
ChannelNames ==
    {"unknown", "dapi"}

\* the crop of a component of 2 or 3 voxels to its 2x2 bounding box
NucleusMask(size) ==
    LET order == <<(<<1, 1>>), (<<2, 2>>), (<<1, 2>>)>>
    IN  NdArray(<<2, 2>>, [c \in {order[i] : i \in 1..size} |-> 1])

\* Particle.__init__ / Nucleus(pixels, roi, axes): the particle, with an
\* empty _intensity
Nucleus_init(pixels, roi, axes) ==
    LET r == Particle_init("Nucleus", pixels, roi, axes)
        p == r.obj
    IN  IF ~r.ok THEN r
        ELSE [r EXCEPT !.obj = [f \in DOMAIN p \cup {"_intensity"} |->
                                    IF f = "_intensity" THEN [c \in {} |-> NoneVal] ELSE p[f]]]

\* Particle.channel_names
Particle_channel_names(self) ==
    DOMAIN self._intensity

\* Particle.get_intensity_sum(channel_name)
Particle_get_intensity_sum(self, channel_name) ==
    IF channel_name \in DOMAIN self._intensity
    THEN IntVal(self._intensity[channel_name].sum)
    ELSE NaN

\* Particle.init_intensity_features(img, channel_name), for an image whose
\* samples under the particle's mask add up to `total`
Particle_init_intensity_features(self, total, channel_name) ==
    [self EXCEPT !._intensity =
        [c \in DOMAIN @ \cup {channel_name} |->
            IF c = channel_name THEN [sum |-> total] ELSE @[c]]]

\* nucleus.source = rawpath
SetSource(self, rawpath) ==
    [f \in DOMAIN self \cup {"source"} |-> IF f = "source" THEN rawpath ELSE self[f]]

\* the intensities given to a nucleus: none, one channel, or both channels
IntensitySets ==
    {<<>>, <<(<<"unknown", 2>>)>>, <<(<<"unknown", 3>>), (<<"dapi", 2>>)>>}

RECURSIVE WithIntensities(_, _)
WithIntensities(self, todo) ==
    IF todo = <<>> THEN self
    ELSE WithIntensities(Particle_init_intensity_features(self, Head(todo)[2], Head(todo)[1]),
                         Tail(todo))

\* a nucleus of `size` voxels found with label idx in the field `rawpath`
NucleusOf(size, idx, rawpath, intensities) ==
    LET mask == NucleusMask(size)
        n == Nucleus_init(mask, BoundingElement_from_binary_pixels(mask), <<"Y", "X">>).obj
    IN  SetSource(WithIntensities([n EXCEPT !.idx = IntVal(idx)], intensities), rawpath)

\* the nuclei a list is built from
NucleusInputs ==
    {NucleusOf(size, 1, "raw.tif", ints) : size \in 2..3, ints \in IntensitySets}

\* get_data(): the table, one entry per column; an isum column per channel
\* that some nucleus holds
NucleiList_get_data(self) ==
    LET ns == NucleiList_nuclei(self)
        rows == 1..Len(ns)
        channels == UNION {Particle_channel_names(ns[i]) : i \in rows}
    IN  [image |-> [i \in rows |-> ns[i].source],
         label |-> [i \in rows |-> ns[i].idx],
         size |-> [i \in rows |-> IntVal(ParticleBase_total_size(ns[i]).value)],
         isum |-> [c \in channels |-> [i \in rows |-> Particle_get_intensity_sum(ns[i], c)]]]

\* the list after get_data(): reading total_size caches it in each nucleus
NucleiList_sizes_cached(self) ==
    [self EXCEPT !.nuclei = [i \in 1..Len(@) |-> ParticleBase_total_size(@[i]).obj]]

\* the answers of cell_cycle_fit: a two-component fit, the one-component
\* fallback, or no fit
FitAnswers ==
    {[kind |-> k] : k \in {"two_component", "fallback", "none"}}

\* the answers of range_from_fit: None or (low, high)
RangeAnswers ==
    {NoneVal} \cup {[lo |-> 2, hi |-> 2], [lo |-> 2, hi |-> 3], [lo |-> 3, hi |-> 3]}

\* what the service answers for one column: no fit (and no range asked), a
\* fit and no range, or a fit and a range
ColumnAnswers ==
    LET fits == FitAnswers \ {[kind |-> "none"]}
    IN  {<<[kind |-> "none"], Unset>>} \cup (fits \X RangeAnswers)

\* what the service answers during one select_G1: the intensity column is
\* asked for only once the size column has a fit and a range
ServiceAnswers ==
    {[size_fit |-> s[1], size_range |-> s[2], isum_fit |-> i[1], isum_range |-> i[2]] :
        s \in ColumnAnswers, i \in ColumnAnswers \cup {<<Unset, Unset>>}}

\* the intensity column has answers exactly when it is asked for
AnswersInOrder(svc) ==
    (svc.isum_fit # Unset) <=> (svc.size_fit # [kind |-> "none"] /\ svc.size_range # NoneVal)

\* fit[0] is not None, for a fit that only counts with two components
FitFound_TwoComponentOnly(fit) ==
    fit.kind = "two_component"

\* fit[0] is not None
FitFound(fit) ==
    fit.kind # "none"

\* values >= low, element by element (False for nan)
GreaterEqual(v, low) ==
    v.tag = "int" /\ v.v >= low

\* a comparison that leaves the upper end out
LessEqual_Strict(v, high) ==
    v.tag = "int" /\ v.v < high

\* values <= high, element by element (False for nan)
LessEqual(v, high) ==
    v.tag = "int" /\ v.v <= high

\* select_G1(k_sigma, channel), with the answers `svc` of the fit service:
\* the outcome, and the answers the service was asked for
NucleiList_select_G1(self, channel, svc) ==
    LET ndata0 == NucleiList_get_data(self)
        rows == DOMAIN ndata0.size
        none == [size_fit |-> Unset, size_range |-> Unset, isum_fit |-> Unset,
                 isum_range |-> Unset]
        g1 == [none EXCEPT !.size_fit = svc.size_fit]
        g2 == [g1 EXCEPT !.size_range = svc.size_range]
        g3 == [g2 EXCEPT !.isum_fit = svc.isum_fit]
        g4 == [g3 EXCEPT !.isum_range = svc.isum_range]
        pass_size == [i \in rows |-> GreaterEqual(ndata0.size[i], svc.size_range.lo)
                                     /\ LessEqual(ndata0.size[i], svc.size_range.hi)]
        pass_isum == [i \in rows |-> GreaterEqual(ndata0.isum[channel][i], svc.isum_range.lo)
                                     /\ LessEqual(ndata0.isum[channel][i], svc.isum_range.hi)]
    IN  IF ~FitFound(svc.size_fit) THEN [out |-> Raised("AssertionError"), given |-> g1]
        ELSE IF svc.size_range = NoneVal THEN [out |-> Raised("AssertionError"), given |-> g2]
        ELSE IF channel \notin DOMAIN ndata0.isum THEN [out |-> Raised("KeyError"), given |-> g2]
        ELSE IF ~FitFound(svc.isum_fit) THEN [out |-> Raised("AssertionError"), given |-> g3]
        ELSE IF svc.isum_range = NoneVal THEN [out |-> Raised("AssertionError"), given |-> g4]
        ELSE [given |-> g4,
              out |-> Returned(
                [ndata |-> [image |-> ndata0.image, label |-> ndata0.label,
                            size |-> ndata0.size, isum |-> ndata0.isum,
                            pass_size |-> pass_size, pass_isum |-> pass_isum,
                            pass |-> [i \in rows |-> pass_size[i] /\ pass_isum[i]],
                            ref |-> [i \in rows |-> channel]],
                 details |-> [size |-> [range |-> svc.size_range, fit |-> svc.size_fit],
                              isum |-> [range |-> svc.isum_range, fit |-> svc.isum_fit]]])]

\* no select_G1 yet: what a select_G1 call leaves in the list is what a
\* get_data call leaves, so the calls that follow one are not followed up
NotSelected ==
    IF ndata = Unset THEN TRUE ELSE ndata.op # "select_G1"

InitNuclei ==
    /\ \/ nuclei = NucleiList_init(<<>>)
       \/ \E n \in NucleusInputs : nuclei = NucleiList_init(<<n>>)
    /\ ndata = Unset
    /\ earlierIdle
    /\ fieldsIdle
    /\ distanceIdle
    /\ recentIdle

\* nuclei = NucleiList.concat([nuclei, NucleiList([n])])
Concat ==
    /\ NotSelected
    /\ Len(nuclei.nuclei) < MaxNuclei
    /\ \E n \in NucleusInputs :
        nuclei' = NucleiList_concat(<<nuclei, NucleiList_init(<<n>>)>>)
    /\ UNCHANGED <<ndata, nucleiRest>>

\* NucleiList.from_field_of_view(maskpath, rawpath): the call raises, the
\* list at hand is as it was
FieldOfView ==
    /\ NotSelected
    /\ ndata' = [op |-> "from_field_of_view", self |-> nuclei, channel |-> NoneVal,
                 given |-> NoneVal,
                 out |-> NucleiList_from_field_of_view(<<"mask.tif">>, <<"raw.tif">>, TRUE)]
    /\ UNCHANGED <<nuclei, nucleiRest>>

\* nuclei.get_data()
GetData ==
    /\ NotSelected
    /\ ndata' = [op |-> "get_data", self |-> nuclei, channel |-> NoneVal, given |-> NoneVal,
                 out |-> Returned([ndata |-> NucleiList_get_data(nuclei)])]
    /\ nuclei' = NucleiList_sizes_cached(nuclei)
    /\ UNCHANGED nucleiRest

\* nuclei.select_G1(k_sigma, channel)
SelectG1 ==
    /\ NotSelected
    /\ \E channel \in ChannelNames :
        \E svc \in {a \in ServiceAnswers : AnswersInOrder(a)} :
            LET r == NucleiList_select_G1(nuclei, channel, svc)
            IN  ndata' = [op |-> "select_G1", self |-> nuclei, channel |-> channel,
                          given |-> r.given, out |-> r.out]
    /\ nuclei' = NucleiList_sizes_cached(nuclei)
    /\ UNCHANGED nucleiRest

NextNuclei ==
    \/ Concat
    \/ FieldOfView
    \/ GetData
    \/ SelectG1

SpecNuclei ==
    InitNuclei /\ [][NextNuclei]_vars

(***************************************************************************)
(* Claims about the NucleiList, checked under SpecNuclei.                  *)
(***************************************************************************)
\* the last call was select_G1
CalledSelectG1 ==
    /\ ndata # Unset
    /\ ndata.op = "select_G1"

\* the last call was select_G1 and it returned its table
ReturnedFromSelectG1 ==
    /\ CalledSelectG1
    /\ ndata.out.raised = "none"

\* the value is a number of the closed range
InRange(v, range) ==
    \E x \in range.lo..range.hi : v = IntVal(x)

\* C17: in the table returned by select_G1, for every object, pass_size is
\* true exactly when its size lies in the closed fitted size range,
\* pass_isum exactly when its intensity sum lies in the closed fitted
\* intensity range, pass is their conjunction and ref is the channel passed.
C17_PassColumnsFollowTheRanges ==
    ReturnedFromSelectG1 =>
        LET t == ndata.out.value.ndata
        IN  \A i \in 1..Len(ndata.self.nuclei) :
                /\ t.pass_size[i] <=> InRange(t.size[i], ndata.given.size_range)
                /\ t.pass_isum[i] <=> InRange(t.isum[ndata.channel][i], ndata.given.isum_range)
                /\ t.pass[i] <=> (t.pass_size[i] /\ t.pass_isum[i])
                /\ t.ref[i] = ndata.channel

\* a table with an object on the upper end of both ranges, which passes, and
\* an object outside the intensity range, which does not
C17_Witness ==
    /\ ReturnedFromSelectG1
    /\ LET t == ndata.out.value.ndata
       IN  /\ \E i \in DOMAIN t.pass :
                /\ t.pass[i]
                /\ t.size[i] = IntVal(ndata.given.size_range.hi)
                /\ t.isum[ndata.channel][i] = IntVal(ndata.given.isum_range.hi)
           /\ \E i \in DOMAIN t.pass : t.pass_size[i] /\ ~t.pass_isum[i]

\* the service gave no fit
FitMissing(answer) ==
    answer = [kind |-> "none"]

\* the service gave no range
RangeMissing(answer) ==
    answer = NoneVal

\* the service gave a two-component or a fallback fit, and a range for it
GotFitAndRange(fit, range) ==
    /\ fit \in {[kind |-> "two_component"], [kind |-> "fallback"]}
    /\ range \notin {NoneVal, Unset}

\* C18: select_G1 aborts when the fit service returns no fit, or no range,
\* for the size column or for the intensity column; it completes with a
\* result whenever each column gets a two-component fit or the fallback fit,
\* with a range; it aborts on nothing else the service answers.
C18_OnlyFitExhaustionAborts ==
    CalledSelectG1 =>
        LET g == ndata.given
            exhausted == \/ FitMissing(g.size_fit)
                         \/ RangeMissing(g.size_range)
                         \/ FitMissing(g.isum_fit)
                         \/ RangeMissing(g.isum_range)
        IN  /\ exhausted => ndata.out.raised = "AssertionError"
            /\ ndata.out.raised = "AssertionError" => exhausted
            /\ (GotFitAndRange(g.size_fit, g.size_range)
                    /\ GotFitAndRange(g.isum_fit, g.isum_range))
                => ndata.out.raised = "none"

\* select_G1 completed on the fallback fit of the size column
C18_Witness ==
    /\ ReturnedFromSelectG1
    /\ ndata.given.size_fit = [kind |-> "fallback"]
    /\ ndata.given.isum_fit = [kind |-> "two_component"]
    /\ Len(ndata.self.nuclei) > 0

\* select_G1 aborted on the intensity column, the size column fitted
C18_WitnessAbort ==
    /\ CalledSelectG1
    /\ ndata.out.raised = "AssertionError"
    /\ GotFitAndRange(ndata.given.size_fit, ndata.given.size_range)
    /\ FitMissing(ndata.given.isum_fit)

\* the last call returned a table
ReturnedTable ==
    /\ ndata # Unset
    /\ ndata.op \in {"get_data", "select_G1"}
    /\ ndata.out.raised = "none"

\* C19: the aggregator never drops an object: whatever calls of
\* from_field_of_view, concat, get_data and select_G1 came before, the table
\* has exactly one row per nucleus of the list, in list order, the nuclei
\* failing the selection and the nuclei lacking a channel (intensity sum
\* nan) included.
C19_OneRowPerNucleus ==
    /\ ReturnedTable =>
        LET t == ndata.out.value.ndata
            ns == ndata.self.nuclei
            rows == 1..Len(ns)
        IN  /\ DOMAIN t.image = rows
            /\ DOMAIN t.label = rows
            /\ DOMAIN t.size = rows
            /\ \A i \in rows :
                /\ t.image[i] = ns[i].source
                /\ t.label[i] = ns[i].idx
                /\ t.size[i] = IntVal(Cardinality(DOMAIN ns[i]._pixels.nz))
            /\ \A c \in DOMAIN t.isum :
                /\ DOMAIN t.isum[c] = rows
                /\ \A i \in rows :
                    t.isum[c][i] = IF c \in DOMAIN ns[i]._intensity
                                   THEN IntVal(ns[i]._intensity[c].sum)
                                   ELSE NaN
            /\ ndata.op = "select_G1" =>
                /\ DOMAIN t.pass_size = rows
                /\ DOMAIN t.pass_isum = rows
                /\ DOMAIN t.pass = rows
                /\ DOMAIN t.ref = rows
    /\ ndata # Unset =>
        /\ Len(nuclei.nuclei) >= Len(ndata.self.nuclei)
        /\ \A i \in 1..Len(ndata.self.nuclei) :
            /\ nuclei.nuclei[i]._pixels = ndata.self.nuclei[i]._pixels
            /\ nuclei.nuclei[i]._intensity = ndata.self.nuclei[i]._intensity

\* a table of select_G1 with a row that fails the selection and a row whose
\* intensity sum is nan
C19_Witness ==
    /\ ReturnedFromSelectG1
    /\ LET t == ndata.out.value.ndata
       IN  /\ Len(ndata.self.nuclei) = MaxNuclei
           /\ \E i \in DOMAIN t.pass : ~t.pass[i] /\ t.isum[ndata.channel][i] # NaN
           /\ \E i \in DOMAIN t.pass : t.isum[ndata.channel][i] = NaN

\* a table asked for after a concat that followed an earlier table
C19_WitnessSequence ==
    /\ ReturnedTable
    /\ ndata.op = "get_data"
    /\ Len(ndata.self.nuclei) = MaxNuclei
    /\ \E i \in 1..Len(ndata.self.nuclei) : ndata.self.nuclei[i]._total_size # NoneVal
    /\ \E i \in 1..Len(ndata.self.nuclei) : ndata.self.nuclei[i]._total_size = NoneVal

(***************************************************************************)
(* One Nucleus and its distance maps: init_distances asks the radial       *)
(* distance service (a black box that returns a pair of maps, returns      *)
(* None, or fails) and get_intensity_at_distance tabulates the voxels of   *)
(* the nucleus.                                                            *)
(***************************************************************************)
\* a distance map over the box of a nucleus
DistanceMaps ==
    {FromDense(<<2, 2>>, d) : d \in [Coords(<<2, 2>>) -> 0..1]}

\* what rdc.calc(self, C) does: a pair (lamina map, center map), None, or an
\* exception
DistanceAnswers ==
    {[kind |-> "pair", lamina |-> l, center |-> c] : l \in DistanceMaps, c \in DistanceMaps}
        \cup {[kind |-> "None"], [kind |-> "raise"]}

\* Nucleus(pixels, roi, axes): the class attributes _center_dist and
\* _lamina_dist are None
Nucleus_new(size, idx) ==
    LET mask == NucleusMask(size)
        n == Nucleus_init(mask, BoundingElement_from_binary_pixels(mask), <<"Y", "X">>).obj
    IN  [f \in DOMAIN n \cup {"_center_dist", "_lamina_dist"} |->
            IF f \in {"_center_dist", "_lamina_dist"} THEN NoneVal
            ELSE IF f = "idx" THEN IntVal(idx) ELSE n[f]]

\* Nucleus.distances
Nucleus_distances(self) ==
    <<self._center_dist, self._lamina_dist>>

\* Nucleus.has_distances()
Nucleus_has_distances(self) ==
    self._lamina_dist # NoneVal /\ self._center_dist # NoneVal

\* an assignment that stores the first map only
AssignDistances_LaminaOnly(self, distances) ==
    [self EXCEPT !._lamina_dist = distances.lamina]

\* self._lamina_dist, self._center_dist = distances
AssignDistances(self, distances) ==
    [self EXCEPT !._lamina_dist = distances.lamina, !._center_dist = distances.center]

\* Nucleus.init_distances(rdc, C), the service answering `answer`: the
\* nucleus after the call and the outcome
Nucleus_init_distances(self, answer) ==
    IF answer.kind = "raise" THEN [self |-> self, out |-> Raised("ServiceError")]
    ELSE IF answer.kind = "None" THEN [self |-> self, out |-> Raised("AssertionError")]
    ELSE [self |-> AssignDistances(self, answer), out |-> Returned(NoneVal)]

\* Nucleus.get_intensity_at_distance(img, img2): per voxel of the nucleus,
\* the sample of the image (ivalue, from the crop of the image to the box),
\* the two distances, lamina / (lamina + center) as a fraction, and the index
Nucleus_get_intensity_at_distance(self, crop) ==
    IF ~(self._lamina_dist # NoneVal /\ self._center_dist # NoneVal)
    THEN Raised("AssertionError")
    ELSE Returned([c \in DOMAIN self._pixels.nz |->
                    [ivalue |-> At(crop, c),
                     lamina_dist |-> At(self._lamina_dist, c),
                     center_dist |-> At(self._center_dist, c),
                     lamina_dist_norm |-> <<At(self._lamina_dist, c),
                                            At(self._lamina_dist, c) + At(self._center_dist, c)>>,
                     nucleus_label |-> self.idx]])

\* no call yet
NoCall ==
    [op |-> "none", out |-> NoneVal, tried |-> FALSE, succeeded |-> FALSE]

InitDistance ==
    /\ \E size \in 2..3 : nucleus = Nucleus_new(size, 1)
    /\ distRet = NoCall
    /\ earlierIdle
    /\ fieldsIdle
    /\ nucleiIdle
    /\ recentIdle

\* nucleus.init_distances(rdc, C)
InitDistances ==
    /\ \E answer \in DistanceAnswers :
        LET r == Nucleus_init_distances(nucleus, answer)
        IN  /\ nucleus' = r.self
            /\ distRet' = [op |-> "init_distances", out |-> r.out, tried |-> TRUE,
                           succeeded |-> distRet.succeeded \/ r.out.raised = "none"]
    /\ UNCHANGED distanceRest

\* nucleus.has_distances()
HasDistances ==
    /\ distRet' = [distRet EXCEPT !.op = "has_distances",
                                  !.out = Returned(Nucleus_has_distances(nucleus))]
    /\ UNCHANGED <<nucleus, distanceRest>>

\* nucleus.get_intensity_at_distance(img, img2)
GetIntensityAtDistance ==
    /\ distRet' = [distRet EXCEPT !.op = "get_intensity_at_distance",
                                  !.out = Nucleus_get_intensity_at_distance(nucleus,
                                              Full(<<2, 2>>, 1))]
    /\ UNCHANGED <<nucleus, distanceRest>>

NextDistance ==
    \/ InitDistances
    \/ HasDistances
    \/ GetIntensityAtDistance

SpecDistance ==
    InitDistance /\ [][NextDistance]_vars

(***************************************************************************)
(* Claims about the distance maps, checked under SpecDistance.             *)
(***************************************************************************)
\* C20: in every reachable state of a Nucleus the lamina-distance map and
\* the center-distance map are both absent or both present, and
\* get_intensity_at_distance called before init_distances has succeeded
\* fails at once instead of returning a table.
C20_MapsComeTogether ==
    /\ (nucleus._lamina_dist = NoneVal) <=> (nucleus._center_dist = NoneVal)
    /\ (distRet.op = "get_intensity_at_distance" /\ ~distRet.succeeded)
        => distRet.out = Raised("AssertionError")
    /\ distRet.op = "has_distances"
        => distRet.out = Returned(nucleus._lamina_dist # NoneVal)

\* the table was asked for after an init_distances that failed
C20_Witness ==
    /\ distRet.op = "get_intensity_at_distance"
    /\ distRet.tried
    /\ ~distRet.succeeded
    /\ distRet.out.raised = "AssertionError"
    /\ nucleus._lamina_dist = NoneVal

\* the table was asked for after an init_distances that succeeded
C20_WitnessPresent ==
    /\ distRet.op = "get_intensity_at_distance"
    /\ distRet.succeeded
    /\ distRet.out.raised = "none"
    /\ nucleus._lamina_dist # NoneVal
    /\ nucleus._center_dist # NoneVal

(***************************************************************************)
(* radiantkit/image.py: the module functions z_project, fill_holes,        *)
(* closing2, opening2, dilate, erode, clear_XY_borders, clear_Z_borders.   *)
(***************************************************************************)
\* the number of bits of a sample of dtype uint8
Uint8Bits ==
    8

RECURSIVE Pow2(_)
Pow2(n) ==
    IF n = 0 THEN 1 ELSE 2 * Pow2(n - 1)

\* the samples of I along the leading axis, over the position c of the
\* remaining axes
RECURSIVE SumAlong0(_, _, _)
SumAlong0(I, c, n) ==
    IF n = 0 THEN 0 ELSE At(I, <<n>> \o c) + SumAlong0(I, c, n - 1)

MaxAlong0(I, c) ==
    SetMax({At(I, <<i>> \o c) : i \in 1..Head(I.shape)})

\* a sum without the conversion back to the dtype of the input
AsType_Wide(v, bits) ==
    v

\* ndarray.astype(dtype) for an unsigned integer dtype of the given width:
\* the value modulo 2^bits
AsType(v, bits) ==
    v % Pow2(bits)

\* z_project(I, projection_type) for an array of unsigned samples `bits`
\* wide: I.sum(0) is computed in the platform integer, then cast back
z_project(I, bits, projection_type) ==
    IF projection_type = "SUM_PROJECTION"
    THEN FromDense(Tail(I.shape),
                   [c \in Coords(Tail(I.shape)) |->
                        AsType(SumAlong0(I, c, Head(I.shape)), bits)])
    ELSE IF projection_type = "MAX_PROJECTION"
    THEN FromDense(Tail(I.shape),
                   [c \in Coords(Tail(I.shape)) |-> AsType(MaxAlong0(I, c), bits)])
    ELSE I

\* the pixels of a plane under square(3) centred on c
Square3(shape, c) ==
    {d \in Coords(shape) : /\ d[1] - c[1] \in {0 - 1, 0, 1}
                           /\ d[2] - c[2] \in {0 - 1, 0, 1}}

\* skimage.morphology.dilation / erosion of a plane with square(3): the
\* maximum / minimum under the square (the border is reflected)
dilation(A) ==
    FromDense(A.shape, [c \in Coords(A.shape) |->
                            SetMax({At(A, d) : d \in Square3(A.shape, c)})])

erosion(A) ==
    FromDense(A.shape, [c \in Coords(A.shape) |->
                            SetMin({At(A, d) : d \in Square3(A.shape, c)})])

\* skimage.morphology.closing / opening
closing(A) ==
    erosion(dilation(A))

opening(A) ==
    dilation(erosion(A))

\* the body shared by closing2, opening2, dilate and erode: the assertion,
\* the 2D branch, and `elif 3 == len(i.shape)`, where nothing defines `i`
Morphology(mask, result) ==
    IF 1 # ArrMax(mask) THEN Raise("AssertionError", {}, <<>>)
    ELSE IF 2 = Rank(mask) THEN Return(result, {}, <<>>)
    ELSE Raise("NameError", {}, <<>>)

closing2(mask) ==
    Morphology(mask, IF 2 = Rank(mask) THEN closing(mask) ELSE mask)

opening2(mask) ==
    Morphology(mask, IF 2 = Rank(mask) THEN opening(mask) ELSE mask)

dilate(mask) ==
    Morphology(mask, IF 2 = Rank(mask) THEN dilation(mask) ELSE mask)

erode(mask) ==
    Morphology(mask, IF 2 = Rank(mask) THEN erosion(mask) ELSE mask)

\* fill_holes(mask): its first statement reads `ndi`, which image.py never
\* imports
fill_holes(mask) ==
    Raise("NameError", {}, <<>>)

\* the warning of clear_XY_borders / clear_Z_borders for an array that is
\* neither a plane nor a stack
NotImplementedWarning(L, what) ==
    IF Rank(L) \in {2, 3} THEN <<>>
    ELSE <<LogRecord("warning", what, IntVal(Rank(L)))>>

\* no warning at all
NotImplementedWarning_Silent(L, what) ==
    <<>>

\* clear_XY_borders(L) / clear_Z_borders(L) as calls: what they return and log
Call_clear_XY_borders(L) ==
    Return(clear_XY_borders(L), {},
           NotImplementedWarning(L, "XY border clearing not implemented for images with"))

Call_clear_Z_borders(L) ==
    Return(clear_Z_borders(L), {},
           NotImplementedWarning(L, "Z border clearing not implemented for images with"))

\* ImageLabeled(pixels) and ImageBinary(pixels) as calls
Call_ImageLabeled(pixels, doRelabel) ==
    Return(ImageLabeled_init(pixels, NoneVal, doRelabel)._pixels, {}, <<>>)

Call_ImageBinary(pixels, doRebinarize) ==
    LET r == ImageBinary_init("ImageBinary", pixels, NoneVal, doRebinarize)
    IN  IF r.ok THEN Return(r.obj._pixels, {}, <<>>) ELSE Raise(r.err, {}, <<>>)

(***************************************************************************)
(* One call of one of these functions on an array.                         *)
(***************************************************************************)
\* the arrays with every sample drawn from vals
DenseArrays(shape, vals) ==
    {FromDense(shape, d) : d \in [Coords(shape) -> vals]}

\* rows, planes, stacks and 4D arrays of samples
MorphologyInputs ==
    DenseArrays(<<2>>, 0..MaxVal) \cup DenseArrays(<<2, 2>>, 0..MaxVal)
        \cup DenseArrays(<<2, 1, 2>>, 0..1) \cup DenseArrays(<<1, 1, 1, 2>>, 0..MaxVal)

\* uint8 samples: small ones and ones whose sums pass 255
Uint8Samples ==
    {0, 1, Pow2(Uint8Bits - 1), Pow2(Uint8Bits) - 1}

ProjectionInputs ==
    DenseArrays(<<2, 1, 2>>, Uint8Samples) \cup DenseArrays(<<2, 2>>, Uint8Samples)

ProjectionTypes ==
    {"SUM_PROJECTION", "MAX_PROJECTION", "3D"}

InitArrays ==
    /\ arrCall = Unset
    /\ arrRet = Unset
    /\ formerIdle
    /\ seriesIdle
    /\ intensityIdle

\* the call op(I) with the outcome r
Called(op, I, flag, r) ==
    /\ arrCall = Unset
    /\ arrCall' = [op |-> op, I |-> I, flag |-> flag]
    /\ arrRet' = r
    /\ UNCHANGED arraysRest

CallZProject ==
    \E I \in ProjectionInputs, t \in ProjectionTypes :
        Called("z_project", I, t, Return(z_project(I, Uint8Bits, t), {}, <<>>))

CallFillHoles ==
    \E mask \in MorphologyInputs : Called("fill_holes", mask, NoneVal, fill_holes(mask))

CallClosing2 ==
    \E mask \in MorphologyInputs : Called("closing2", mask, NoneVal, closing2(mask))

CallOpening2 ==
    \E mask \in MorphologyInputs : Called("opening2", mask, NoneVal, opening2(mask))

CallDilate ==
    \E mask \in MorphologyInputs : Called("dilate", mask, NoneVal, dilate(mask))

CallErode ==
    \E mask \in MorphologyInputs : Called("erode", mask, NoneVal, erode(mask))

CallClearXYBorders ==
    \E L \in MorphologyInputs :
        Called("clear_XY_borders", L, NoneVal, Call_clear_XY_borders(L))

CallClearZBorders ==
    \E L \in MorphologyInputs :
        Called("clear_Z_borders", L, NoneVal, Call_clear_Z_borders(L))

ConstructLabeled ==
    \E pixels \in MorphologyInputs, doRelabel \in BOOLEAN :
        Called("ImageLabeled", pixels, doRelabel, Call_ImageLabeled(pixels, doRelabel))

ConstructBinary ==
    \E pixels \in MorphologyInputs, doRebinarize \in BOOLEAN :
        Called("ImageBinary", pixels, doRebinarize, Call_ImageBinary(pixels, doRebinarize))

NextArrays ==
    \/ CallZProject
    \/ CallFillHoles
    \/ CallClosing2
    \/ CallOpening2
    \/ CallDilate
    \/ CallErode
    \/ CallClearXYBorders
    \/ CallClearZBorders
    \/ ConstructLabeled
    \/ ConstructBinary

SpecArrays ==
    InitArrays /\ [][NextArrays]_vars

(***************************************************************************)
(* Claims about the array functions, checked under SpecArrays.             *)
(***************************************************************************)
\* the last call was one of the morphological operations on an array that
\* is neither a plane nor a stack
MorphologicalOps ==
    {"closing2", "opening2", "dilate", "erode", "fill_holes",
     "clear_XY_borders", "clear_Z_borders"}

CalledOnOtherRank(names) ==
    /\ arrCall # Unset
    /\ arrCall.op \in names
    /\ Rank(arrCall.I) \notin {2, 3}

\* the call logged one warning and returned its input
WarnedAndReturnedInput ==
    /\ arrRet.raised = "none"
    /\ arrRet.value = arrCall.I
    /\ Len(arrRet.log) = 1
    /\ arrRet.log[1].level = "warning"

\* C23 (as stated): for an array whose dimensionality is neither 2 nor 3,
\* each morphological operation (close, open, dilate, erode, fill_holes, XY
\* and Z border clearing) logs a warning and returns its input unchanged,
\* without raising.
C23_OtherRanksWarnAndReturnInput ==
    CalledOnOtherRank(MorphologicalOps) => WarnedAndReturnedInput

\* what does hold: the two border clearings warn and return their input;
\* the other five operations raise
C23_OnlyBorderClearingWarns ==
    /\ CalledOnOtherRank({"clear_XY_borders", "clear_Z_borders"}) => WarnedAndReturnedInput
    /\ CalledOnOtherRank(MorphologicalOps \ {"clear_XY_borders", "clear_Z_borders"})
            => arrRet.raised \in {"AssertionError", "NameError"}

\* the last call was a projection of a stack
Projected(t) ==
    /\ arrCall # Unset
    /\ arrCall.op = "z_project"
    /\ arrCall.flag = t

\* C27 (as stated): the sum projection returns at each row/column position
\* the true arithmetic sum of the samples along the depth axis, with no
\* wrap-around modulo 2^w of the sample type, the max projection returns
\* their maximum, and the result has one axis fewer than the input.
C27_ProjectionsAreExact ==
    /\ Projected("SUM_PROJECTION") =>
        /\ arrRet.value.shape = Tail(arrCall.I.shape)
        /\ \A c \in Coords(arrRet.value.shape) :
            At(arrRet.value, c) = SumAlong0(arrCall.I, c, Head(arrCall.I.shape))
    /\ Projected("MAX_PROJECTION") =>
        /\ arrRet.value.shape = Tail(arrCall.I.shape)
        /\ \A c \in Coords(arrRet.value.shape) :
            At(arrRet.value, c) = MaxAlong0(arrCall.I, c)

\* what does hold: the sum projection is the sum modulo 2^w, the max
\* projection is the maximum
C27_SumWrapsAround ==
    /\ Projected("SUM_PROJECTION") =>
        \A c \in Coords(arrRet.value.shape) :
            At(arrRet.value, c)
                = SumAlong0(arrCall.I, c, Head(arrCall.I.shape)) % Pow2(Uint8Bits)
    /\ Projected("MAX_PROJECTION") =>
        \A c \in Coords(arrRet.value.shape) :
            At(arrRet.value, c) = MaxAlong0(arrCall.I, c)

\* the last call was a construction that relabels or rebinarizes
Reconstructed ==
    /\ arrCall # Unset
    /\ arrCall.op \in {"ImageLabeled", "ImageBinary"}
    /\ arrCall.flag = TRUE

\* C28 (as stated): relabeling and rebinarizing preserve the foreground
\* set for every input array: a voxel is non-zero after the construction
\* of an ImageLabeled (relabel) or of an ImageBinary (rebinarize) if and
\* only if its input sample was non-zero, inputs without a zero-valued
\* voxel included.
C28_ForegroundPreserved ==
    Reconstructed =>
        /\ arrRet.raised = "none"
        /\ DOMAIN arrRet.value.nz = DOMAIN arrCall.I.nz

\* what does hold: the foreground after the construction is the set of
\* voxels above the minimum of the input, which is the set of non-zero
\* voxels when the input holds a zero
C28_ForegroundIsAboveTheMinimum ==
    (Reconstructed /\ arrRet.raised = "none") =>
        DOMAIN arrRet.value.nz
            = {c \in DOMAIN arrCall.I.nz : arrCall.I.nz[c] > ArrMin(arrCall.I)}

(***************************************************************************)
(* radiantkit/particle.py: Particle.init_intensity_features and the reads  *)
(* of the intensity features.  The grey-scale image (ImageGrayScale) and   *)
(* BoundingElement.apply are modelled from the specification's data model: *)
(* an image is its samples and its optional background scalar, and the box *)
(* crops an image that hosts it.                                           *)
(***************************************************************************)
\* a grey-scale image
GrayScale(pixels, background) ==
    [pixels |-> pixels, background |-> background]

\* the box lies within the image
Fits(roi, image) ==
    /\ Rank(image.pixels) = Len(roi.lo)
    /\ \A i \in 1..Len(roi.lo) : roi.hi[i] - 1 <= image.pixels.shape[i]

\* the samples of A at the coordinates S, added up
RECURSIVE SumOver(_, _)
SumOver(A, S) ==
    IF S = {} THEN 0
    ELSE LET c == CHOOSE x \in S : TRUE
         IN  At(A, c) + SumOver(A, S \ {c})

\* self._region_of_interest.apply(image)[self.pixels], less the background:
\* how many samples are selected and what they add up to
SelectedSamples(self, image) ==
    LET crop == BoundingElement_apply_to_pixels(self._region_of_interest, image.pixels)
        under == DOMAIN self._pixels.nz
        b == IF image.background = NoneVal THEN 0 ELSE image.background.v
    IN  [n |-> Cardinality(under), total |-> SumOver(crop, under) - b * Cardinality(under)]

\* the entry of a channel once its features are stored: the mean, as the
\* fraction total / n, and the sum
Features(px) ==
    [mean |-> <<px.total, px.n>>, sum |-> px.total]

\* an assignment that leaves the features of a channel that has some alone
StoreFeatures_KeepFirst(entry, px) ==
    IF DOMAIN entry # {} THEN entry ELSE Features(px)

\* self._intensity[channel_name]["mean"] = ...; ...["sum"] = ...
StoreFeatures(entry, px) ==
    Features(px)

\* the dict with channel_name bound to entry
WithChannel(self, channel_name, entry) ==
    [self EXCEPT !._intensity =
        [c \in DOMAIN @ \cup {channel_name} |-> IF c = channel_name THEN entry ELSE @[c]]]

\* the outcome of a call on a particle: the particle after the call, what
\* was raised or returned, and what was logged
Outcome(self, raised, value, log) ==
    [self |-> self, raised |-> raised, value |-> value, log |-> log]

\* Particle.init_intensity_features(image, channel_name): the warning or the
\* new empty entry come first, then the crop, which raises for an image
\* that does not host the box, then the two assignments
Call_init_intensity_features(self, image, channel_name) ==
    LET known == channel_name \in DOMAIN self._intensity
        log == IF known
               THEN <<LogRecord("warning", "overwriting intensity mean of channel",
                                StrVal(channel_name))>>
               ELSE <<>>
        entered == IF known THEN self ELSE WithChannel(self, channel_name, <<>>)
    IN  IF ~Fits(self._region_of_interest, image) THEN Outcome(entered, "IndexError", NoneVal, log)
        ELSE Outcome(WithChannel(entered, channel_name,
                                 StoreFeatures(entered._intensity[channel_name],
                                               SelectedSamples(self, image))),
                     "none", NoneVal, log)

\* Particle.get_intensity_sum(channel_name) / get_intensity_mean(channel_name)
\* as calls: the entry of a known channel is indexed with "sum" / "mean"
Call_get_intensity(self, channel_name, feature) ==
    IF channel_name \notin DOMAIN self._intensity THEN Outcome(self, "none", NaN, <<>>)
    ELSE IF feature \notin DOMAIN self._intensity[channel_name]
    THEN Outcome(self, "KeyError", NoneVal, <<>>)
    ELSE Outcome(self, "none", self._intensity[channel_name][feature], <<>>)

(***************************************************************************)
(* One particle: its intensity features are set from images, for one       *)
(* channel or another, and read, in any order.                             *)
(***************************************************************************)
\* images that host the particle's box, one that does not, with and
\* without a background
IntensityImages ==
    {GrayScale(A, b) : A \in DenseArrays(<<2, 2>>, {1, MaxVal}) \cup DenseArrays(<<1, 2>>, {1}),
                       b \in {NoneVal, IntVal(1)}}

InitIntensity ==
    /\ \E size \in 2..3 :
        cell = Nucleus_init(NucleusMask(size),
                            BoundingElement_from_binary_pixels(NucleusMask(size)),
                            <<"Y", "X">>).obj
    /\ cellRet = Unset
    /\ formerIdle
    /\ arraysIdle
    /\ seriesIdle

\* the call op(args) made on cell, with the outcome r; `names` is
\* cell.channel_names before the call
CalledOnCell(op, channel_name, image, r) ==
    /\ cell' = r.self
    /\ cellRet' = [op |-> op, channel |-> channel_name, img |-> image,
                   names |-> Particle_channel_names(cell),
                   raised |-> r.raised, value |-> r.value, log |-> r.log]
    /\ UNCHANGED intensityRest

InitIntensityFeatures ==
    \E image \in IntensityImages, channel_name \in ChannelNames :
        CalledOnCell("init_intensity_features", channel_name, image,
                     Call_init_intensity_features(cell, image, channel_name))

GetIntensitySum ==
    \E channel_name \in ChannelNames :
        CalledOnCell("get_intensity_sum", channel_name, NoneVal,
                     Call_get_intensity(cell, channel_name, "sum"))

GetIntensityMean ==
    \E channel_name \in ChannelNames :
        CalledOnCell("get_intensity_mean", channel_name, NoneVal,
                     Call_get_intensity(cell, channel_name, "mean"))

NextIntensity ==
    \/ InitIntensityFeatures
    \/ GetIntensitySum
    \/ GetIntensityMean

SpecIntensity ==
    InitIntensity /\ [][NextIntensity]_vars

(***************************************************************************)
(* Claims about the intensity features, checked under SpecIntensity.       *)
(***************************************************************************)
\* the last call was init_intensity_features
InitCalled ==
    /\ cellRet # Unset
    /\ cellRet.op = "init_intensity_features"

\* ... for a channel the particle already held, with an image hosting the box
InitCalledAgain ==
    /\ InitCalled
    /\ cellRet.channel \in cellRet.names
    /\ Fits(cell._region_of_interest, cellRet.img)

\* C21: init_intensity_features called again with a channel name already
\* present does not fail: it logs a warning, the sum and mean of the
\* channel become those of the latest image, and the set of channel names
\* is unchanged.
C21_ReinitOverwritesWithWarning ==
    InitCalledAgain =>
        /\ cellRet.raised = "none"
        /\ Len(cellRet.log) = 1
        /\ cellRet.log[1].level = "warning"
        /\ cell._intensity[cellRet.channel] = Features(SelectedSamples(cell, cellRet.img))
        /\ Particle_channel_names(cell) = cellRet.names

\* a channel set again from an image with a background, next to another
\* channel holding a larger sum
C21_Witness ==
    /\ InitCalledAgain
    /\ cellRet.names = ChannelNames
    /\ cellRet.raised = "none"
    /\ cellRet.img.background # NoneVal
    /\ \A c \in ChannelNames : DOMAIN cell._intensity[c] # {}
    /\ \E c \in ChannelNames : cell._intensity[c].sum > cell._intensity[cellRet.channel].sum

\* every channel of channel_names holds a sum and a mean
FeaturesComplete ==
    cell # Unset =>
        \A c \in Particle_channel_names(cell) : {"sum", "mean"} \subseteq DOMAIN cell._intensity[c]

\* C29 (as stated): a failed init_intensity_features leaves the intensity
\* state unchanged: the channel name is not added to channel_names, every
\* channel of channel_names has a sum and a mean in every reachable state,
\* and get_intensity_sum / get_intensity_mean never fail.
C29_FailedInitChangesNothing ==
    /\ (InitCalled /\ cellRet.raised # "none") => Particle_channel_names(cell) = cellRet.names
    /\ FeaturesComplete
    /\ (cellRet # Unset /\ cellRet.op \in {"get_intensity_sum", "get_intensity_mean"})
            => cellRet.raised = "none"

\* what does hold: a failed call leaves the features of the channels that
\* had some as they were, and a read fails only for a channel entered by a
\* failed call
C29_FailedInitKeepsStoredFeatures ==
    /\ cell # Unset =>
        \A c \in Particle_channel_names(cell) :
            DOMAIN cell._intensity[c] \in {{}, {"sum", "mean"}}
    /\ (cellRet # Unset /\ cellRet.op \in {"get_intensity_sum", "get_intensity_mean"}
            /\ cellRet.raised # "none")
            => /\ cellRet.raised = "KeyError"
               /\ DOMAIN cell._intensity[cellRet.channel] = {}

(***************************************************************************)
(* radiantkit/image.py: the operations of ImageBinary that replace the     *)
(* mask, called on a particle (ParticleBase is an ImageBinary), and the    *)
(* reads of its total_size.                                                *)
(***************************************************************************)
\* np.logical_and / logical_or / logical_xor / logical_not, as boolean arrays
logical_and(A, B) ==
    NdArray(A.shape, [c \in DOMAIN A.nz \cap DOMAIN B.nz |-> 1])

logical_or(A, B) ==
    NdArray(A.shape, [c \in DOMAIN A.nz \cup DOMAIN B.nz |-> 1])

logical_xor(A, B) ==
    NdArray(A.shape, [c \in (DOMAIN A.nz \cup DOMAIN B.nz) \ (DOMAIN A.nz \cap DOMAIN B.nz) |-> 1])

logical_not(A) ==
    NdArray(A.shape, [c \in Coords(A.shape) \ DOMAIN A.nz |-> 1])

\* self._pixels = f(self._pixels), for the outcome r of f(self._pixels):
\* nothing is assigned when f raises
ImageBinary_assign(self, r) ==
    IF r.raised = "none" THEN Outcome([self EXCEPT !._pixels = r.value], "none", NoneVal, r.log)
    ELSE Outcome(self, r.raised, NoneVal, r.log)

\* ImageBinary.fill_holes / close / open / dilate / erode / invert
ImageBinary_fill_holes(self) ==
    ImageBinary_assign(self, fill_holes(self._pixels))

ImageBinary_close(self) ==
    ImageBinary_assign(self, closing2(self._pixels))

ImageBinary_open(self) ==
    ImageBinary_assign(self, opening2(self._pixels))

ImageBinary_dilate(self) ==
    ImageBinary_assign(self, dilate(self._pixels))

ImageBinary_erode(self) ==
    ImageBinary_assign(self, erode(self._pixels))

ImageBinary_invert(self) ==
    ImageBinary_assign(self, Return(logical_not(self._pixels), {}, <<>>))

\* ImageBinary.logical_and / logical_or / logical_xor with the pixels of B
ImageBinary_logical(self, which, B) ==
    ImageBinary_assign(self,
        Return(CASE which = "logical_and" -> logical_and(self._pixels, B)
                 [] which = "logical_or" -> logical_or(self._pixels, B)
                 [] which = "logical_xor" -> logical_xor(self._pixels, B), {}, <<>>))

\* the total_size property as a call
Call_total_size(self) ==
    LET r == ParticleBase_total_size(self)
    IN  Outcome(r.obj, "none", IntVal(r.value), <<>>)

(***************************************************************************)
(* One particle: its mask is changed and its total_size is read, in any    *)
(* order.                                                                  *)
(***************************************************************************)
MaskShapes ==
    {<<2, 3>>, <<2, 1, 2>>}

\* the crops of a component to its bounding box
CellMasks ==
    {A \in UNION {DenseArrays(sh, {0, 1}) : sh \in MaskShapes} :
        /\ DOMAIN A.nz # {}
        /\ BoundingElement_shape(BoundingElement_from_binary_pixels(A)) = A.shape}

\* the pixels of the binary images handed to the logical operations: one
\* voxel, or all of them
OtherMasks(shape) ==
    (SparseArrays(shape, 1, {1}) \ {NdArray(shape, <<>>)}) \cup {Full(shape, 1)}

InitMask ==
    /\ \E A \in CellMasks :
        LET r == Nucleus_init(A, BoundingElement_from_binary_pixels(A),
                              SliceLast(<<"Z", "Y", "X">>, Rank(A)))
        IN  /\ r.ok
            /\ cell = r.obj
    /\ cellRet = Unset
    /\ formerIdle
    /\ arraysIdle
    /\ seriesIdle

\* the call op() made on cell, with the outcome r
CalledOnMask(op, r) ==
    /\ cell' = r.self
    /\ cellRet' = [op |-> op, raised |-> r.raised, value |-> r.value]
    /\ UNCHANGED intensityRest

ReadCellTotalSize ==
    CalledOnMask("total_size", Call_total_size(cell))

MaskFillHoles ==
    CalledOnMask("fill_holes", ImageBinary_fill_holes(cell))

MaskClose ==
    CalledOnMask("close", ImageBinary_close(cell))

MaskOpen ==
    CalledOnMask("open", ImageBinary_open(cell))

MaskDilate ==
    CalledOnMask("dilate", ImageBinary_dilate(cell))

MaskErode ==
    CalledOnMask("erode", ImageBinary_erode(cell))

MaskInvert ==
    CalledOnMask("invert", ImageBinary_invert(cell))

MaskLogical ==
    \E which \in {"logical_and", "logical_or", "logical_xor"},
       B \in OtherMasks(cell._pixels.shape) :
        CalledOnMask(which, ImageBinary_logical(cell, which, B))

NextMask ==
    \/ ReadCellTotalSize
    \/ MaskFillHoles
    \/ MaskClose
    \/ MaskOpen
    \/ MaskDilate
    \/ MaskErode
    \/ MaskInvert
    \/ MaskLogical

SpecMask ==
    InitMask /\ [][NextMask]_vars

(***************************************************************************)
(* Claims about the cached size, checked under SpecMask.                   *)
(***************************************************************************)
\* C26 (as stated): after any sequence of operations on a particle, reads
\* of total_size interleaved with dilate, erode, open, close, fill_holes,
\* invert and logical_and / or / xor, total_size is the number of
\* foreground voxels currently in the mask.
C26_TotalSizeIsTheCurrentCount ==
    cell # Unset => Call_total_size(cell).value.v = ImageBinary_foreground(cell)

\* what does hold: a read of total_size made before any other read returns
\* the count of the mask, and every read returns what the first one did
C26_TotalSizeIsTheFirstCount ==
    [][/\ (cell._total_size = NoneVal /\ cellRet'.op = "total_size")
            => cellRet'.value.v = ImageBinary_foreground(cell)
       /\ cell._total_size # NoneVal => cell'._total_size = cell._total_size]_vars

(***************************************************************************)
(* radiantkit/series.py: SeriesSettings, Series and                        *)
(* SeriesList.from_directory.  find_re, select_by_prefix_and_suffix and    *)
(* get_image_details (radiantkit.path) are modelled by what they are       *)
(* called for: a file name is <<kind, series id, channel name, copy>>, the *)
(* masks are the files of kind "mask", and the details of a file are its   *)
(* series id and channel name.                                             *)
(***************************************************************************)
MaxFiles == 3

\* the files a directory can hold
FileNames ==
    {<<kind, series_id, channel_name, copy>> :
        kind \in {"mask", "raw"}, series_id \in 1..2, channel_name \in ChannelNames,
        copy \in 1..2}

\* the directory listings: at most n files, none of them twice
Listings(n) ==
    {l \in UNION {[1..k -> FileNames] : k \in 0..n} :
        \A i, j \in DOMAIN l : i # j => l[i] # l[j]}

DirPath ==
    "dpath"

\* select_by_prefix_and_suffix(dpath, channel_list, *maskfix): the masks and
\* the other files, each in the order of the listing
IsMaskFile(name) ==
    name[1] = "mask"

IsChannelFile(name) ==
    name[1] # "mask"

\* path_join(dpath, name), as a Python str
JoinedPath(name) ==
    StrVal(PathJoin(DirPath, name))

\* the file name of a path
Basename(path) ==
    path.v[2]

\* get_image_details(path, inreg): (series_id, channel_name), read from the
\* name of the file
get_image_details(name) ==
    <<name[2], name[3]>>

\* d[key] = value
SetItem(d, key, value) ==
    [k \in DOMAIN d \cup {key} |-> IF k = key THEN value ELSE d[k]]

\* the loop over mask_list: a mask of another channel is skipped, and so is
\* a second mask of a series (`continue`)
RECURSIVE MaskLoop(_, _, _)
MaskLoop(mask_list, ref, st) ==
    IF mask_list = <<>> THEN st
    ELSE LET mask_path == Head(mask_list)
             series_id == get_image_details(mask_path)[1]
             channel_name == get_image_details(mask_path)[2]
         IN  MaskLoop(Tail(mask_list), ref,
                IF channel_name # ref
                THEN [st EXCEPT !.log = Append(@, LogRecord("warning",
                                    "skipping mask for channel", StrVal(channel_name)))]
                ELSE IF series_id \in DOMAIN st.data
                THEN [st EXCEPT !.log = Append(@, LogRecord("warning",
                                    "found multiple masks for reference channel",
                                    IntVal(series_id)))]
                ELSE [st EXCEPT !.data = SetItem(@, series_id, JoinedPath(mask_path))])

\* the loop over channel_list: a channel already seen is logged, and the
\* assignment follows for every file; `order` is the order of the keys of
\* channel_data
RECURSIVE ChannelLoop(_, _)
ChannelLoop(channel_list, st) ==
    IF channel_list = <<>> THEN st
    ELSE LET channel_path == Head(channel_list)
             series_id == get_image_details(channel_path)[1]
             channel_name == get_image_details(channel_path)[2]
             fresh == series_id \notin DOMAIN st.data
             entry == IF fresh THEN <<>> ELSE st.data[series_id]
             known == channel_name \in DOMAIN entry
         IN  ChannelLoop(Tail(channel_list),
                [data |-> SetItem(st.data, series_id, SetItem(entry, channel_name, JoinedPath(channel_path))),
                 order |-> IF fresh THEN Append(st.order, series_id) ELSE st.order,
                 log |-> IF known
                         THEN Append(st.log, LogRecord("warning",
                                "found multiple instances of channel", StrVal(channel_name)))
                         ELSE st.log])

\* SeriesSettings.__init__ / Series.__init__; the files of channel_paths are
\* files of the directory
Series_init(ID, channel_paths, mask_path) ==
    IF mask_path # NoneVal /\ get_image_details(Basename(mask_path))[2] \notin DOMAIN channel_paths
    THEN [ok |-> FALSE, obj |-> NoneVal, err |-> "AssertionError"]
    ELSE [ok |-> TRUE, err |-> "none",
          obj |-> [_ID |-> ID, _channels |-> channel_paths,
                   _mask |-> mask_path,
                   _ref |-> IF mask_path = NoneVal THEN NoneVal
                            ELSE StrVal(get_image_details(Basename(mask_path))[2]),
                   labeled |-> FALSE, _particles |-> NoneVal]]

\* the loop that builds series_list: a series without a mask ends the
\* program (sys_exit), a constructor that raises ends the call
RECURSIVE SeriesLoop(_, _, _, _)
SeriesLoop(order, channel_data, mask_data, st) ==
    IF order = <<>> \/ st.raised # "none" THEN st
    ELSE LET series_id == Head(order)
         IN  IF series_id \notin DOMAIN mask_data
             THEN [st EXCEPT !.raised = "SystemExit",
                             !.log = Append(@, LogRecord("critical",
                                        "missing mask of reference channel", IntVal(series_id)))]
             ELSE LET r == Series_init(series_id, channel_data[series_id], mask_data[series_id])
                  IN  SeriesLoop(Tail(order), channel_data, mask_data,
                                 IF r.ok THEN [st EXCEPT !.value = Append(@, r.obj)]
                                 ELSE [st EXCEPT !.raised = r.err])

\* the number of distinct channel counts
ChannelCounts(channel_data) ==
    {Cardinality(DOMAIN channel_data[series_id]) : series_id \in DOMAIN channel_data}

\* SeriesList.from_directory(dpath, inreg, ref, maskfix) for a directory
\* holding the files of `files`, in the order they are found
SeriesList_from_directory(files, ref) ==
    LET masks == MaskLoop(SelectSeq(files, IsMaskFile), ref, [data |-> <<>>, log |-> <<>>])
        channels == ChannelLoop(SelectSeq(files, IsChannelFile),
                                [data |-> <<>>, order |-> <<>>, log |-> masks.log])
    IN  IF 1 # Cardinality(ChannelCounts(channels.data))
        THEN [raised |-> "AssertionError", value |-> <<>>, log |-> channels.log]
        ELSE SeriesLoop(channels.order, channels.data, masks.data,
                        [raised |-> "none", value |-> <<>>, log |-> channels.log])

\* ImageLabeled.from_tiff(path) and ImageBinary.from_tiff(path): both are
\* declared (self, path, ...) under @staticmethod
Mask_from_tiff_call(labeled) ==
    IF labeled THEN BindArguments(2, 3, 1) ELSE ImageBinary_from_tiff_call(1)

\* Series.init_particles(channel, particleClass).  Reading self.mask for a
\* mask still held as a path calls init_mask, which calls from_tiff with
\* the path alone: the call raises for every path, and what follows it (the
\* extraction, mask.unload(), the intensity features and the unload of the
\* channel) is not reached.
Series_init_particles(self, channel) ==
    IF self._mask = NoneVal
    THEN Outcome(self, "none", NoneVal,
                 <<LogRecord("warning", "mask is missing, no particles extracted.", NoneVal)>>)
    ELSE Outcome(self, Mask_from_tiff_call(self.labeled), NoneVal, <<>>)

(***************************************************************************)
(* A directory is read into a list of Series, or one Series is made from   *)
(* files of the directory; init_particles is then called on a Series.      *)
(***************************************************************************)
InitSeries ==
    /\ listing \in Listings(MaxFiles)
    /\ series = Unset
    /\ seriesRet = Unset
    /\ formerIdle
    /\ arraysIdle
    /\ intensityIdle

\* SeriesList.from_directory(dpath, inreg, ref, maskfix)
FromDirectory ==
    /\ seriesRet = Unset
    /\ \E ref \in ChannelNames :
        LET r == SeriesList_from_directory(listing, ref)
        IN  /\ series' = IF r.raised = "none" THEN r.value ELSE Unset
            /\ seriesRet' = [op |-> "from_directory", ref |-> StrVal(ref), index |-> 0,
                             channel |-> NoneVal, raised |-> r.raised, log |-> r.log]
    /\ UNCHANGED listing
    /\ UNCHANGED seriesRest

\* Series(ID, channel_paths, mask_path, inreg), then series.labeled = labeled
NewSeries ==
    /\ seriesRet = Unset
    /\ \E i \in DOMAIN listing, j \in {0} \cup DOMAIN listing, labeled \in BOOLEAN :
        LET r == Series_init(1, SetItem(<<>>, listing[i][3], JoinedPath(listing[i])),
                             IF j = 0 THEN NoneVal ELSE JoinedPath(listing[j]))
        IN  /\ IsChannelFile(listing[i])
            /\ j # 0 => IsMaskFile(listing[j])
            /\ series' = IF r.ok THEN <<[r.obj EXCEPT !.labeled = labeled]>> ELSE Unset
            /\ seriesRet' = [op |-> "Series", ref |-> NoneVal, index |-> 0,
                             channel |-> NoneVal, raised |-> r.err, log |-> <<>>]
    /\ UNCHANGED listing
    /\ UNCHANGED seriesRest

\* series.init_particles(channel) on one Series of the list
InitParticles ==
    /\ seriesRet # Unset
    /\ seriesRet.op \in {"from_directory", "Series"}
    /\ seriesRet.raised = "none"
    /\ \E i \in DOMAIN series :
        \E channel \in {StrVal(c) : c \in DOMAIN series[i]._channels} \cup {NoneVal} :
            LET r == Series_init_particles(series[i], channel)
            IN  /\ series' = [series EXCEPT ![i] = r.self]
                /\ seriesRet' = [op |-> "init_particles", ref |-> NoneVal, index |-> i,
                                 channel |-> channel, raised |-> r.raised, log |-> r.log]
    /\ UNCHANGED listing
    /\ UNCHANGED seriesRest

NextSeries ==
    \/ FromDirectory
    \/ NewSeries
    \/ InitParticles

SpecSeries ==
    InitSeries /\ [][NextSeries]_vars

(***************************************************************************)
(* Claims about the series, checked under SpecSeries.                      *)
(***************************************************************************)
\* the first / last file of the listing for a channel of a series
FilesOf(kind, series_id, channel_name) ==
    {i \in DOMAIN listing : /\ listing[i][1] = kind
                            /\ listing[i][2] = series_id
                            /\ listing[i][3] = channel_name}

FirstFileOf(kind, series_id, channel_name) ==
    JoinedPath(listing[SetMin(FilesOf(kind, series_id, channel_name))])

LastFileOf(kind, series_id, channel_name) ==
    JoinedPath(listing[SetMax(FilesOf(kind, series_id, channel_name))])

\* from_directory returned a list of Series
ReadDirectory ==
    /\ seriesRet # Unset
    /\ seriesRet.op = "from_directory"
    /\ seriesRet.raised = "none"

\* C25 (as stated): when from_directory finds more than one file for the
\* same channel of the same series, the later files are skipped: the
\* series keeps the path of the first file found for that channel, as it
\* does for duplicate reference masks.
C25_FirstChannelFileKept ==
    ReadDirectory =>
        \A i \in DOMAIN series :
            /\ \A c \in DOMAIN series[i]._channels :
                series[i]._channels[c] = FirstFileOf("raw", series[i]._ID, c)
            /\ series[i]._mask = FirstFileOf("mask", series[i]._ID, seriesRet.ref.v)

\* what does hold: the series keeps the path of the last file found for a
\* channel, and the first mask found for the reference channel
C25_LastChannelFileKept ==
    ReadDirectory =>
        \A i \in DOMAIN series :
            /\ \A c \in DOMAIN series[i]._channels :
                series[i]._channels[c] = LastFileOf("raw", series[i]._ID, c)
            /\ series[i]._mask = FirstFileOf("mask", series[i]._ID, seriesRet.ref.v)

\* init_particles was called with a channel on a Series that has a mask
ProcessedField ==
    /\ seriesRet # Unset
    /\ seriesRet.op = "init_particles"
    /\ seriesRet.channel # NoneVal
    /\ series[seriesRet.index]._mask # NoneVal

\* an image in the unloaded state: no samples, and the path to reload them
UnloadedWithPath(image) ==
    /\ DOMAIN image = DOMAIN NoImage
    /\ image._pixels = NoneVal
    /\ image._path_to_local # NoneVal

\* C22 (as stated): after a field has been processed (init_particles with
\* a mask and a channel), the mask image and the raw image of the channel
\* of the field are in the unloaded state: the samples released, the paths
\* to reload them retained.
C22_ProcessedFieldIsUnloaded ==
    ProcessedField =>
        /\ seriesRet.raised = "none"
        /\ UnloadedWithPath(series[seriesRet.index]._mask)
        /\ UnloadedWithPath(series[seriesRet.index]._channels[seriesRet.channel.v])

\* what does hold: the call ends with TypeError where the mask is first
\* read, and the Series still holds the paths of its mask and channels
C22_ProcessingEndsAtTheMask ==
    ProcessedField =>
        /\ seriesRet.raised = "TypeError"
        /\ series[seriesRet.index]._particles = NoneVal
        /\ series[seriesRet.index]._mask.tag = "str"
        /\ series[seriesRet.index]._channels[seriesRet.channel.v].tag = "str"

====
